---- MODULE Spec2Model ----
(***************************************************************************)
(* Per-frame gameplay simulation of rusty-osu: the specs dispatcher of     *)
(* game_thread.rs, its systems (systems.rs), the components and resources  *)
(* they touch, and the deferred LazyUpdate queue applied by                *)
(* world.maintain().                                                       *)
(*                                                                         *)
(* Numbers.  Time is counted in ticks of 50 ms, so 0.200 s = 4 ticks and   *)
(* 0.700 s = 14 ticks; HIT_WINDOW / 3 is not a whole number of ticks and   *)
(* is compared as 3 * remaining against HIT_WINDOW.  Health is counted in  *)
(* tenths (1.0 = 10, drain 0.1 = 1).  A position is an exact fraction      *)
(* [x, y, den] standing for (x / den, y / den); a percentage is a pair     *)
(* [num, den].  All arithmetic is exact (no f32/f64 rounding).  A slider's  *)
(* progress (|remaining| / duration_in_secs) is kept as its numerator      *)
(* |remaining| and compared against duration_in_secs.  Instants (Time.now, *)
(* finished_at, despawned_at) are left out: no system reads them, only the *)
(* renderer's animations do.  TrailSystem and AudioSystem, which write the *)
(* cursor trail and play sounds, are left out as well.                     *)
(***************************************************************************)
EXTENDS Integers, Sequences, FiniteSets, TLC

VARIABLES
    beatmap,          \* ObjectSpawnerSystem.beatmap + timing_points_lookup
    spawner_index,    \* ObjectSpawnerSystem.current_hit_object_index (0-based)
    time,             \* resource Time: delta_seconds, secs_since_start
    store,            \* entity id -> its components (World storages)
    alloc,            \* specs entity allocator: max_id and the free-id cache
    lazy,             \* LazyUpdate queue of the running frame
    event_loop_msgs,  \* resource Vec<EventLoopMsg>
    input_state,      \* resource GameInputState
    cursor,           \* resource GameCursor
    game_area,        \* resource GameArea
    hp,               \* resource Hp.value
    combo,            \* resource Combo.value
    score,            \* resource Score.value
    game_events,      \* resource GameEvents.storage
    pc,               \* position of the game thread in its loop
    done,             \* systems of the dispatcher that have run this frame
    exit,             \* local `exit` of game_thread
    hist,             \* observer: per hit object, what has happened to its entity
    call              \* harness for the function-level specifications

vars == <<beatmap, spawner_index, time, store, alloc, lazy, event_loop_msgs,
          input_state, cursor, game_area, hp, combo, score, game_events,
          pc, done, exit, hist, call>>

----------------------------------------------------------------------------
(* Program constants (consts.rs, resources.rs), in the units above.        *)

LIFETIME == 14
HIT_WINDOW == 4
BASE_CIRCLE_RADIUS == 35
HP_FULL == 10
HP_DRAIN == 1

(* Bounds of the model.                                                    *)
MaxDelta == 1        \* a frame lasts 0..MaxDelta ticks
MaxTail == 8         \* frames are followed until MaxTail ticks after the
                     \* end of the last hit object

NoMarker == [kind |-> "None"]
NoSlider == [tag |-> "NoSlider"]
NoMatrix == [set |-> FALSE]

Abs(a) == IF a < 0 THEN 0 - a ELSE a

----------------------------------------------------------------------------
(* utils.rs                                                                *)

min_f64(f1, f2) == IF f1 < f2 THEN f1 ELSE f2
max_f64(f1, f2) == IF f1 > f2 THEN f1 ELSE f2

\* sqrt(dx^2 + dy^2) < circle_radius, for the point (px, py) and the centre
\* c = [x, y, den]; both sides are scaled by c.den and squared, and a
\* coordinate that is already circle_radius away decides without squaring.
circle_contains_point(px, py, c, circle_radius) ==
    LET dx == Abs(px * c.den - c.x)
        dy == Abs(py * c.den - c.y)
        r == circle_radius * c.den
    IN  dx < r /\ dy < r /\ dx * dx + dy * dy < r * r

\* variant: the weights of the two values are exchanged
lerp_swapped(v1, v2, n, d) == n * v1 + (d - n) * v2

\* (1 - t) * v1 + t * v2 with t = n / d, as a numerator over d
lerp(v1, v2, n, d) == (d - n) * v1 + n * v2

\* Option<&V>
NoValue == [some |-> FALSE]
Some(v) == [some |-> TRUE, v |-> v]

\* variant: an entry at the key itself is passed over
btree_gt_strict(btree, key) ==
    LET ks == {k \in DOMAIN btree : k > key}
    IN  IF ks = {} THEN [some |-> FALSE]
        ELSE [some |-> TRUE, v |-> btree[CHOOSE k \in ks : \A j \in ks : k <= j]]

\* btree.range(key..).next(): the value at the smallest k >= key
btree_gt(btree, key) ==
    LET ks == {k \in DOMAIN btree : k >= key}
    IN  IF ks = {} THEN NoValue
        ELSE Some(btree[CHOOSE k \in ks : \A j \in ks : k <= j])

\* btree.range(..key).next_back(): the value at the largest k < key
btree_less(btree, key) ==
    LET ks == {k \in DOMAIN btree : k < key}
    IN  IF ks = {} THEN NoValue
        ELSE Some(btree[CHOOSE k \in ks : \A j \in ks : k >= j])

----------------------------------------------------------------------------
(* components.rs                                                           *)

\* variant: a hit zone with no upper end
is_in_hit_zone_no_upper(remaining) == 0 - HIT_WINDOW <= remaining

\* HIT_RANGE = -HIT_WINDOW..HIT_WINDOW is a half-open Range
is_in_hit_zone(remaining) ==
    0 - HIT_WINDOW <= remaining /\ remaining < HIT_WINDOW

\* PERFECT_HIT_RANGE = -(HIT_WINDOW / 3.0)..(HIT_WINDOW / 3.0), half-open
is_in_perfect_hit_zone(remaining) ==
    0 - HIT_WINDOW <= 3 * remaining /\ 3 * remaining < HIT_WINDOW

UNTOUCHED == [tag |-> "UNTOUCHED"]
DRAGGING(v) == [tag |-> "DRAGGING", secs |-> v]
\* FINISHED(percent_complete, _), the percentage as num / den
FINISHED(num, den) == [tag |-> "FINISHED", pct |-> [num |-> num, den |-> den]]

\* the nested match of Slider::go_to_state: the SliderStateChange it
\* computes; unreachable!() is the change "unreachable"
state_change(state, next_state) ==
    IF next_state.tag = "UNTOUCHED" THEN "unreachable"
    ELSE CASE state.tag = "UNTOUCHED" ->
                IF next_state.tag = "DRAGGING" THEN "Start" ELSE "NoChange"
           [] state.tag = "DRAGGING" ->
                IF next_state.tag = "DRAGGING" THEN "NoChange" ELSE "Stop"
           [] state.tag = "FINISHED" ->
                IF next_state.tag = "DRAGGING" THEN "Start" ELSE "NoChange"

\* variant: the change is reported but self.state is never assigned
go_to_state_keep(state, next_state) ==
    [change |-> state_change(state, next_state), state |-> state]

\* Slider::go_to_state: the change reported and the state afterwards;
\* the panic of unreachable!() comes before the assignment to self.state.
go_to_state(state, next_state) ==
    [change |-> state_change(state, next_state),
     state |-> IF state_change(state, next_state) = "unreachable"
               THEN state ELSE next_state]

CircleHit(rating) == [kind |-> "CircleHit", rating |-> rating]
SliderEnd(state) == [kind |-> "SliderEnd", state |-> state]

----------------------------------------------------------------------------
(* resources.rs                                                            *)

\* variant: drain without the floor
Hp_drain_unfloored(value) == value - HP_DRAIN
Hp_drain(value) == max_f64(value - HP_DRAIN, 0)
\* variant: fill without the ceiling
Hp_fill_uncapped(value) == value + HP_DRAIN
Hp_fill(value) == min_f64(value + HP_DRAIN, HP_FULL)
Combo_maintain(value) == value + 1
Combo_reset(value) == 0
\* variant: the combo value from before the increment
Score_on_good_pre(value, c) == value + (c - 1) * 100
Score_on_good(value, c) == value + c * 100
Score_on_great(value, c) == value + c * 300

\* key_vk_for_key_binding
key_vk_for_key_binding(kb) == IF kb = "Hit1" THEN "G" ELSE "H"
is_key_active(is, bind) == key_vk_for_key_binding(bind) \in is.active_set
is_key_hold(is, bind) == key_vk_for_key_binding(bind) \in is.hold_set

\* variant: a call that changes nothing is announced as a start
emit_on_every_call(storage, change) ==
    CASE change = "Stop" -> Append(storage, "SliderStop")
      [] OTHER -> Append(storage, "SliderStart")

\* variant: the Stop change is dropped and no SliderStop event is pushed
emit_stop_dropped(storage, change) ==
    CASE change = "Start" -> Append(storage, "SliderStart")
      [] OTHER -> storage

\* GameEvents::emit_on_slider_change
emit_on_slider_change(storage, change) ==
    CASE change = "Start" -> Append(storage, "SliderStart")
      [] change = "Stop" -> Append(storage, "SliderStop")
      [] OTHER -> storage

\* GameArea::game_cords_to_screen with matrix = scale then translate:
\* the point p = [x, y, den] mapped to the screen, over the same denominator.
game_cords_to_screen(ga, p) ==
    [x |-> ga.matrix.scale * p.x + ga.matrix.tx * p.den,
     y |-> ga.matrix.scale * p.y + ga.matrix.ty * p.den,
     den |-> p.den]

\* variant: the renderer records the scale and leaves the matrix unset
set_scale_only(new_matrix) ==
    [matrix |-> NoMatrix, scale |-> new_matrix.scale]

\* GameArea::set_game_area_matrix
set_game_area_matrix(new_matrix) ==
    [matrix |-> new_matrix, scale |-> new_matrix.scale]

----------------------------------------------------------------------------
(* Beatmaps fed to the spawner (osu_parser.rs gives their shape).          *)

\* Duration::from_millis(ms).as_secs_f64(), in ticks
MsToTicks(ms) == ms \div 50

HitCircle == [type |-> "HitCircle"]
SliderParams(points, length) ==
    [type |-> "Slider", curve_points |-> points, length |-> length]
NoParams == [type |-> "None"]

HitObject(x, y, ms, params) ==
    [x |-> x, y |-> y, time_offset_in_secs |-> MsToTicks(ms),
     time_offset_in_millis |-> ms, object_params |-> params]

\* one hit circle scheduled at t = 1.000 s
CircleMap ==
    [hit_objects |-> <<HitObject(100, 100, 1000, HitCircle)>>,
     timing_points |-> (0 :> 1000),
     slider_multiplier |-> 1]

\* four circles on one spot: three scheduled at t = 0.700 s, one at 0.800 s
BurstMap ==
    [hit_objects |-> <<HitObject(100, 100, 700, HitCircle),
                       HitObject(100, 100, 700, HitCircle),
                       HitObject(100, 100, 700, HitCircle),
                       HitObject(100, 100, 800, HitCircle)>>,
     timing_points |-> (0 :> 1000),
     slider_multiplier |-> 1]

\* two circles on the spot where the cursor starts, 50 ms apart
OverlapMap ==
    [hit_objects |-> <<HitObject(0, 0, 1000, HitCircle),
                       HitObject(0, 0, 1050, HitCircle)>>,
     timing_points |-> (0 :> 1000),
     slider_multiplier |-> 1]

\* a circle, and a 1-point slider of duration 0.2 s, on the spot where the
\* cursor starts, scheduled at t = 0.700 s
LiveCircleMap ==
    [hit_objects |-> <<HitObject(0, 0, 700, HitCircle)>>,
     timing_points |-> (0 :> 200),
     slider_multiplier |-> 1]
LiveSliderMap ==
    [hit_objects |-> <<HitObject(0, 0, 700, SliderParams(<<<<20, 0>>>>, 100))>>,
     timing_points |-> (0 :> 200),
     slider_multiplier |-> 1]
LiveMaps == {LiveCircleMap, LiveSliderMap}

\* one hit object that is neither a circle nor a slider (a spinner: neither
\* bit 0 nor bit 1 of its type is set), on the spot where the cursor starts
BareMap ==
    [hit_objects |-> <<HitObject(0, 0, 700, NoParams)>>,
     timing_points |-> (0 :> 200),
     slider_multiplier |-> 1]

\* a circle and a 1-point slider of duration 0.2 s on the spot where the
\* cursor starts, scheduled at t = 0.100 s: both are spawned by the first
\* frame and are inside their hit windows from the second frame on
EarlyMap ==
    [hit_objects |-> <<HitObject(0, 0, 100, HitCircle),
                       HitObject(0, 0, 100, SliderParams(<<<<20, 0>>>>, 100))>>,
     timing_points |-> (0 :> 200),
     slider_multiplier |-> 1]

\* a circle at t = 1.000 s followed by a slider with four curve points at
\* t = 2.000 s
BadSliderMap ==
    [hit_objects |->
        <<HitObject(100, 100, 1000, HitCircle),
          HitObject(100, 100, 2000,
                    SliderParams(<<<<110, 110>>, <<120, 100>>, <<130, 110>>,
                                   <<140, 100>>>>, 100))>>,
     timing_points |-> (0 :> 1000),
     slider_multiplier |-> 1]

\* a circle and a straight slider of duration 0.2 s, both at t = 1.000 s:
\* the circle's auto-miss and the slider's expiry fall into one frame
MixedMap ==
    [hit_objects |->
        <<HitObject(100, 100, 1000, HitCircle),
          HitObject(100, 100, 1000, SliderParams(<<<<120, 100>>>>, 100))>>,
     timing_points |-> (0 :> 200),
     slider_multiplier |-> 1]

\* one 2-point slider of duration 1.0 s scheduled at t = 2.000 s
SliderMap ==
    [hit_objects |->
        <<HitObject(100, 100, 2000,
                    SliderParams(<<<<110, 110>>, <<120, 100>>>>, 100))>>,
     timing_points |-> (0 :> 500 @@ 2000 :> 1000),
     slider_multiplier |-> 1]

Beatmaps == {CircleMap, SliderMap}

\* slider_data.length / (slider_multiplier * 100.0) * timing_point / 1000.0,
\* in ticks
slider_duration(length, slider_multiplier, timing_point) ==
    (length * timing_point * 20) \div (slider_multiplier * 100 * 1000)

\* The inbound batches try_iter() may return after a frame.
KeyPressed(k) == [t |-> "KeyPressed", key |-> k]
KeyReleased(k) == [t |-> "KeyReleased", key |-> k]
MouseMovedBy(x, y) == [t |-> "MouseMovedBy", x |-> x, y |-> y]
Quit == [t |-> "Quit"]
Resized == [t |-> "Resized"]

\* The player is followed through these; the second key is followed on
\* beatmaps with circles only (sliders ask whether any bound key is held).
BasicBatches ==
    { <<>>,
      <<KeyPressed("G")>>, <<KeyReleased("G")>>,
      <<MouseMovedBy(100, 100)>>, <<MouseMovedBy(0, 0)>>,
      <<Quit>> }
TwoKeyBatches ==
    { <<KeyPressed("G"), KeyPressed("H")>>, <<KeyReleased("H")>> }
BurstBatches ==
    { <<>>, <<KeyPressed("G")>>, <<Quit>> }
OverlapBatches ==
    { <<>>, <<KeyPressed("G"), KeyPressed("H")>>, <<Quit>> }
LiveBatches ==
    { <<>>, <<KeyPressed("G")>>, <<KeyReleased("G")>>, <<Quit>> }
InputBatches(bm) ==
    IF bm = OverlapMap THEN OverlapBatches
    ELSE
    IF bm \in LiveMaps \cup {BareMap} THEN LiveBatches
    ELSE
    IF Len(bm.hit_objects) > 1 THEN BurstBatches
    ELSE
    IF \E i \in 1..Len(bm.hit_objects) :
          bm.hit_objects[i].object_params.type = "Slider"
    THEN BasicBatches
    ELSE BasicBatches \cup TwoKeyBatches

\* what the renderer publishes: canvas.translate(..); canvas.scale(..)
ViewMatrix == [set |-> TRUE, scale |-> 1, tx |-> 0, ty |-> 0]

----------------------------------------------------------------------------
(* Helpers over the entity store.                                          *)

RECURSIVE SortedSeq(_)
SortedSeq(S) ==
    IF S = {} THEN <<>>
    ELSE LET m == CHOOSE x \in S : \A y \in S : x <= y
         IN  <<m>> \o SortedSeq(S \ {m})

Circles(st) == {id \in DOMAIN st : st[id].kind = "circle"}
Sliders(st) == {id \in DOMAIN st : st[id].kind = "slider"}
Marked(st) == {id \in DOMAIN st : st[id].despawn # NoMarker}

InsertOp(id, reason) ==
    [op |-> "insert", id |-> id, marker |-> [reason |-> reason]]
DeleteOp(id) == [op |-> "delete", id |-> id]
CreateOp(id, comps) == [op |-> "create", id |-> id, comps |-> comps]

\* "find the closest timing point": btree_gt, or else btree_less
closest_timing_point(bm, o) ==
    LET gt == btree_gt(bm.timing_points, o.time_offset_in_millis)
    IN  IF gt.some THEN gt
        ELSE btree_less(bm.timing_points, o.time_offset_in_millis)

\* end of the last hit object, for the horizon of the model
ObjectEnd(bm, o) ==
    o.time_offset_in_secs +
    (IF o.object_params.type = "Slider" /\ closest_timing_point(bm, o).some
     THEN slider_duration(o.object_params.length, bm.slider_multiplier,
                          closest_timing_point(bm, o).v)
     ELSE 0)
LastEnd(bm) ==
    LET ends == {ObjectEnd(bm, bm.hit_objects[i]) : i \in 1..Len(bm.hit_objects)}
    IN  IF ends = {} THEN 0 ELSE CHOOSE e \in ends : \A f \in ends : e >= f

\* What the observer records for one hit object:
\*   spawned      the spawner has created its entity
\*   hit_reqs     CircleHit markers HitSystem has requested for it
\*   hit_at, hit_delta  secs_since_start and delta_seconds of the frame of the first
\*   miss_frames  frames in which CircleLifetimeSystem requested MISS for it
\*   scored       times ScoringSystem has applied a rule for its marker
\*   scored_as    the reason it was scored with
\*   deleted      maintain has deleted the entity
\*   held_all     in every HitSystem run that judged it with remaining <= 0,
\*                a bound key was held with the cursor inside its radius
NoHist ==
    [spawned |-> FALSE, hit_reqs |-> 0, hit_at |-> -1, hit_delta |-> -1,
     miss_frames |-> 0, scored |-> 0, scored_as |-> NoMarker,
     deleted |-> FALSE, held_all |-> TRUE]

----------------------------------------------------------------------------
(* Initial state: make_gameplay_world() and game_dispatcher.setup().       *)

InitWorld(maps) ==
    /\ beatmap \in maps
    /\ spawner_index = 0
    /\ time = [delta_seconds |-> 0, secs_since_start |-> 0]
    /\ store = <<>>
    /\ alloc = [max_id |-> 0, cache |-> <<>>]
    /\ lazy = <<>>
    /\ event_loop_msgs = <<>>
    /\ input_state = [quitting |-> FALSE, active_set |-> {}, hold_set |-> {}]
    /\ cursor = [window_x |-> 0, window_y |-> 0]
    /\ game_area = [matrix |-> NoMatrix, scale |-> 0]
    /\ hp = HP_FULL
    /\ combo = 0
    /\ score = 0
    /\ game_events = <<"SongLoad">>
    /\ pc = "update_time"
    /\ done = {}
    /\ exit = FALSE
    /\ hist = [i \in 1..Len(beatmap.hit_objects) |-> NoHist]

NoCall == [op |-> "none"]
InitWith(maps) == InitWorld(maps) /\ call = NoCall

Init == InitWith(Beatmaps)

----------------------------------------------------------------------------
(* game_thread.rs: the frame loop                                          *)

Systems == {"input-system", "object-spawner-system", "hit-system",
            "circle-lifetime-system", "slider-lifetime-system",
            "lifetime-system", "scoring-system"}

\* variant: "hit-system" is declared with no dependencies
Deps_hit_free(sys) ==
    CASE sys = "input-system" -> {}
      [] sys = "object-spawner-system" -> {}
      [] sys = "hit-system" -> {}
      [] sys = "circle-lifetime-system" -> {"hit-system"}
      [] sys = "slider-lifetime-system" -> {"hit-system"}
      [] sys = "lifetime-system" ->
            {"circle-lifetime-system", "slider-lifetime-system"}
      [] sys = "scoring-system" -> {"lifetime-system"}

\* DispatcherBuilder::with(system, name, dependencies)
Deps(sys) ==
    CASE sys = "input-system" -> {}
      [] sys = "object-spawner-system" -> {}
      [] sys = "hit-system" -> {"object-spawner-system", "input-system"}
      [] sys = "circle-lifetime-system" -> {"hit-system"}
      [] sys = "slider-lifetime-system" -> {"hit-system"}
      [] sys = "lifetime-system" ->
            {"circle-lifetime-system", "slider-lifetime-system"}
      [] sys = "scoring-system" -> {"lifetime-system"}

CanRun(sys) == pc = "dispatch" /\ sys \notin done /\ Deps(sys) \subseteq done
Ran(sys) == done' = done \cup {sys}

\* update_time(&mut world, elapsed): the first frame's elapsed is render_each
\* (1.38 ms, 0 ticks), later ones are measured.
UpdateTime ==
    /\ pc = "update_time"
    /\ time.secs_since_start < LastEnd(beatmap) + MaxTail
    /\ \E d \in 0..MaxDelta :
         /\ (game_area.matrix = NoMatrix => d = 0)
         /\ time' = [delta_seconds |-> d,
                     secs_since_start |-> time.secs_since_start + d]
    /\ pc' = "dispatch"
    /\ done' = {}
    /\ UNCHANGED <<beatmap, spawner_index, store, alloc, lazy, event_loop_msgs,
                   input_state, cursor, game_area, hp, combo, score,
                   game_events, exit, hist, call>>


----------------------------------------------------------------------------
(* systems.rs: ObjectSpawnerSystem                                         *)

\* Allocator::allocate_atomic: a cached (freed) id first, else a fresh one
allocate(a) ==
    IF Len(a.cache) > 0
    THEN [id |-> a.cache[Len(a.cache)],
          alloc |-> [a EXCEPT !.cache = SubSeq(a.cache, 1, Len(a.cache) - 1)]]
    ELSE [id |-> a.max_id, alloc |-> [a EXCEPT !.max_id = a.max_id + 1]]

\* match slider_data.curve_points.len()
slider_curve(obj, pts) ==
    CASE Len(pts) = 1 ->
            [type |-> "Linear", start |-> <<obj.x, obj.y>>, end |-> pts[1]]
      [] Len(pts) = 2 ->
            [type |-> "QuadBezier", start |-> <<obj.x, obj.y>>,
             control_point |-> pts[1], end |-> pts[2]]
      [] Len(pts) = 3 ->
            [type |-> "CubicBezier", start |-> <<obj.x, obj.y>>,
             control_point |-> pts[1], control_point_2 |-> pts[2],
             end |-> pts[3]]
      [] OTHER -> [type |-> "unimplemented"]

\* variant: an object without params is spawned as a circle
spawn_components_as_circle(bm, i, t) ==
    LET obj == bm.hit_objects[i]
        base == [src |-> i, kind |-> "circle",
                 pos |-> [x |-> obj.x, y |-> obj.y, den |-> 1],
                 remaining |-> obj.time_offset_in_secs - t.secs_since_start,
                 rating |-> "MISS", slider |-> NoSlider, despawn |-> NoMarker]
        params == obj.object_params
    IN  CASE params.type = "Slider" ->
                [base EXCEPT
                    !.kind = "slider",
                    !.slider =
                        [duration_in_secs |->
                            slider_duration(params.length, bm.slider_multiplier,
                                            closest_timing_point(bm, obj).v),
                         progress |-> 0,
                         curve |-> slider_curve(obj, params.curve_points),
                         state |-> UNTOUCHED]]
          [] OTHER -> base

\* the component bundle built for hit object number i (1-based) at time t
spawn_components(bm, i, t) ==
    LET obj == bm.hit_objects[i]
        base == [src |-> i, kind |-> "none",
                 pos |-> [x |-> obj.x, y |-> obj.y, den |-> 1],
                 remaining |-> obj.time_offset_in_secs - t.secs_since_start,
                 rating |-> "MISS", slider |-> NoSlider, despawn |-> NoMarker]
        params == obj.object_params
    IN  CASE params.type = "HitCircle" -> [base EXCEPT !.kind = "circle"]
          [] params.type = "Slider" ->
                [base EXCEPT
                    !.kind = "slider",
                    !.slider =
                        [duration_in_secs |->
                            slider_duration(params.length, bm.slider_multiplier,
                                            closest_timing_point(bm, obj).v),
                         progress |-> 0,
                         curve |-> slider_curve(obj, params.curve_points),
                         state |-> UNTOUCHED]]
          [] OTHER -> base

spawner_fatal(bm, i) ==
    LET obj == bm.hit_objects[i]
    IN  IF obj.object_params.type # "Slider" THEN ""
        ELSE IF Len(obj.object_params.curve_points) \notin {1, 2, 3}
             THEN "panic: unimplemented"
        ELSE IF ~closest_timing_point(bm, obj).some
             THEN "panic: unwrap on None"
        ELSE ""

\* variant: an object is admitted a whole LIFETIME earlier
is_due_early(obj, t) ==
    t.secs_since_start + 2 * LIFETIME >= obj.time_offset_in_secs

\* variant: an object is admitted only strictly inside its lead time
is_due_strict(obj, t) ==
    t.secs_since_start + LIFETIME > obj.time_offset_in_secs

\* if time.secs_since_start + LIFETIME >= obj.time_offset_in_secs
is_due(obj, t) ==
    t.secs_since_start + LIFETIME >= obj.time_offset_in_secs

ObjectSpawnerSystemRun ==
    /\ CanRun("object-spawner-system")
    /\ IF /\ spawner_index < Len(beatmap.hit_objects)
          /\ is_due(beatmap.hit_objects[spawner_index + 1], time)
       THEN LET i == spawner_index + 1
                a == allocate(alloc)
            IN  IF spawner_fatal(beatmap, i) # ""
                THEN /\ pc' = spawner_fatal(beatmap, i)
                     /\ UNCHANGED <<spawner_index, alloc, lazy, hist, done>>
                ELSE /\ alloc' = a.alloc
                     /\ lazy' = Append(lazy,
                                  CreateOp(a.id, spawn_components(beatmap, i, time)))
                     /\ spawner_index' = spawner_index + 1
                     /\ hist' = [hist EXCEPT ![i].spawned = TRUE]
                     /\ Ran("object-spawner-system")
                     /\ pc' = pc
       ELSE /\ Ran("object-spawner-system")
            /\ UNCHANGED <<spawner_index, alloc, lazy, hist, pc>>
    /\ UNCHANGED <<beatmap, time, store, event_loop_msgs, input_state, cursor,
                   game_area, hp, combo, score, game_events, exit, call>>

----------------------------------------------------------------------------
(* systems.rs: InputSystem                                                 *)

RECURSIVE apply_msgs(_, _)
\* the loop over event_loop_messages; s = [input_state, cursor]
apply_msgs(msgs, s) ==
    IF msgs = <<>> THEN s
    ELSE LET m == Head(msgs)
             s1 ==
               CASE m.t = "Quit" ->
                      [s EXCEPT !.input_state.quitting = TRUE]
                 [] m.t = "KeyPressed" ->
                      [s EXCEPT !.input_state.active_set = @ \cup {m.key},
                                !.input_state.hold_set = @ \cup {m.key}]
                 [] m.t = "Resized" -> s
                 [] m.t = "MouseMovedBy" ->
                      [s EXCEPT !.cursor = [window_x |-> m.x, window_y |-> m.y]]
                 [] m.t = "KeyReleased" ->
                      [s EXCEPT !.input_state.hold_set = @ \ {m.key}]
         IN  apply_msgs(Tail(msgs), s1)

\* variant: the keys of the previous frame stay active
clear_frame_nothing(is) == is

\* GameInputState::clear_frame
clear_frame(is) == [is EXCEPT !.active_set = {}]

InputSystemRun ==
    /\ CanRun("input-system")
    /\ LET s == apply_msgs(event_loop_msgs,
                           [input_state |-> clear_frame(input_state),
                            cursor |-> cursor])
       IN  /\ input_state' = s.input_state
           /\ cursor' = s.cursor
    /\ Ran("input-system")
    /\ UNCHANGED <<beatmap, spawner_index, time, store, alloc, lazy,
                   event_loop_msgs, game_area, hp, combo, score, game_events,
                   pc, exit, hist, call>>

----------------------------------------------------------------------------
(* systems.rs: HitSystem                                                   *)

\* fn is_hit(hit, circle_cords, scaled_circle_radius)
is_hit(hit, circle_cords, scaled_circle_radius) ==
    circle_contains_point(hit.window_x, hit.window_y, circle_cords,
                          scaled_circle_radius)

\* the spatial test of process_circle_hit for entity e
circle_hit_check(ga, cur, e) ==
    is_hit(cur, game_cords_to_screen(ga, e.pos), BASE_CIRCLE_RADIUS * ga.scale)

\* hit_check of process_slider_hold: the radius is scaled_circle_radius * 1.2
\* (35 * 1.2 = 42, a whole number for every whole scale)
slider_hit_check(ga, cur, e) ==
    is_hit(cur, game_cords_to_screen(ga, e.pos),
           (BASE_CIRCLE_RADIUS * ga.scale * 12) \div 10)

\* variant: a circle whose marker is already requested is passed over
process_circle_hit_skip_pending(binding, w, is, ga, cur) ==
    IF ~is_key_active(is, binding) \/ w.fatal # "" THEN w
    ELSE LET zone == {id \in Circles(w.store) :
                        is_in_hit_zone(w.store[id].remaining)}
         IN  IF zone = {} THEN w
             ELSE IF ~ga.matrix.set
                  THEN [w EXCEPT !.fatal = "panic: unwrap on None"]
             ELSE LET hits == {id \in zone :
                                /\ circle_hit_check(ga, cur, w.store[id])
                                /\ \A k \in 1..Len(w.lazy) :
                                      ~(w.lazy[k].op = "insert" /\ w.lazy[k].id = id)}
                  IN  IF hits = {} THEN w
                      ELSE LET id == CHOOSE h \in hits : \A g \in hits : h <= g
                               hit_rating ==
                                 IF is_in_perfect_hit_zone(w.store[id].remaining)
                                 THEN "GREAT" ELSE "GOOD"
                           IN  [w EXCEPT
                                  !.store[id].rating = hit_rating,
                                  !.lazy = Append(@,
                                      InsertOp(id, CircleHit(hit_rating)))]

\* process_circle_hit(binding); w = [store, lazy, fatal]
process_circle_hit(binding, w, is, ga, cur) ==
    IF ~is_key_active(is, binding) \/ w.fatal # "" THEN w
    ELSE LET zone == {id \in Circles(w.store) :
                        is_in_hit_zone(w.store[id].remaining)}
         IN  IF zone = {} THEN w
             ELSE IF ~ga.matrix.set
                  THEN [w EXCEPT !.fatal = "panic: unwrap on None"]
             ELSE LET hits == {id \in zone : circle_hit_check(ga, cur, w.store[id])}
                  IN  IF hits = {} THEN w
                      ELSE LET id == CHOOSE h \in hits : \A g \in hits : h <= g
                               hit_rating ==
                                 IF is_in_perfect_hit_zone(w.store[id].remaining)
                                 THEN "GREAT" ELSE "GOOD"
                           IN  [w EXCEPT
                                  !.store[id].rating = hit_rating,
                                  !.lazy = Append(@,
                                      InsertOp(id, CircleHit(hit_rating)))]

\* variant: a held slider whose cursor left the hit radius keeps dragging
slider_hold_step_lenient(e, is_holding, hit, t) ==
    LET sl == e.slider
        st == sl.state
    IN  CASE st.tag = "UNTOUCHED" ->
                IF is_holding /\ hit
                THEN go_to_state(st, DRAGGING(0))
                ELSE [change |-> "NoChange", state |-> st]
          [] st.tag = "DRAGGING" ->
                IF is_holding
                THEN IF sl.progress <= sl.duration_in_secs
                     THEN go_to_state(st, DRAGGING(st.secs + t.delta_seconds))
                     ELSE go_to_state(st, FINISHED(st.secs, sl.duration_in_secs))
                ELSE go_to_state(st, FINISHED(st.secs, sl.duration_in_secs))
          [] st.tag = "FINISHED" ->
                IF sl.progress < sl.duration_in_secs /\ is_holding /\ hit
                THEN go_to_state(st,
                        DRAGGING((st.pct.num * sl.duration_in_secs) \div st.pct.den))
                ELSE [change |-> "NoChange", state |-> st]

\* variant: a released slider is reset, UNTOUCHED being the state requested
slider_hold_step_reset(e, is_holding, hit, t) ==
    LET sl == e.slider
        st == sl.state
    IN  CASE st.tag = "UNTOUCHED" ->
                IF is_holding /\ hit
                THEN go_to_state(st, DRAGGING(0))
                ELSE [change |-> "NoChange", state |-> st]
          [] st.tag = "DRAGGING" ->
                IF is_holding /\ hit
                THEN IF sl.progress <= sl.duration_in_secs
                     THEN go_to_state(st, DRAGGING(st.secs + t.delta_seconds))
                     ELSE go_to_state(st, FINISHED(st.secs, sl.duration_in_secs))
                ELSE go_to_state(st, UNTOUCHED)
          [] st.tag = "FINISHED" ->
                IF sl.progress < sl.duration_in_secs /\ is_holding /\ hit
                THEN go_to_state(st,
                        DRAGGING((st.pct.num * sl.duration_in_secs) \div st.pct.den))
                ELSE [change |-> "NoChange", state |-> st]

\* the match on slider.state of process_slider_hold, for one slider entity
slider_hold_step(e, is_holding, hit, t) ==
    LET sl == e.slider
        st == sl.state
    IN  CASE st.tag = "UNTOUCHED" ->
                IF is_holding /\ hit
                THEN go_to_state(st, DRAGGING(0))
                ELSE [change |-> "NoChange", state |-> st]
          [] st.tag = "DRAGGING" ->
                IF is_holding /\ hit
                THEN IF sl.progress <= sl.duration_in_secs
                     THEN go_to_state(st, DRAGGING(st.secs + t.delta_seconds))
                     ELSE go_to_state(st, FINISHED(st.secs, sl.duration_in_secs))
                ELSE go_to_state(st, FINISHED(st.secs, sl.duration_in_secs))
          [] st.tag = "FINISHED" ->
                IF sl.progress < sl.duration_in_secs /\ is_holding /\ hit
                THEN go_to_state(st,
                        DRAGGING((st.pct.num * sl.duration_in_secs) \div st.pct.den))
                ELSE [change |-> "NoChange", state |-> st]

slider_in_judging_window(e) ==
    is_in_hit_zone(e.remaining) \/ e.remaining < 0

RECURSIVE process_slider_hold(_, _, _, _, _, _)
\* process_slider_hold over the sliders `ids` in join order; w = [store, events, fatal]
process_slider_hold(ids, w, is_holding, ga, cur, t) ==
    IF ids = <<>> \/ w.fatal # "" THEN w
    ELSE LET id == Head(ids)
             e == w.store[id]
         IN  IF ~slider_in_judging_window(e)
             THEN process_slider_hold(Tail(ids), w, is_holding, ga, cur, t)
             ELSE IF ~ga.matrix.set
                  THEN [w EXCEPT !.fatal = "panic: unwrap on None"]
             ELSE LET r == slider_hold_step(e, is_holding,
                                            slider_hit_check(ga, cur, e), t)
                  IN  IF r.change = "unreachable"
                      THEN [w EXCEPT !.fatal = "panic: unreachable"]
                      ELSE process_slider_hold(Tail(ids),
                             [w EXCEPT !.store[id].slider.state = r.state,
                                       !.events = emit_on_slider_change(@, r.change)],
                             is_holding, ga, cur, t)

\* HitSystem::run
hit_system(st, lz, ev, is, ga, cur, t) ==
    LET c1 == process_circle_hit("Hit1", [store |-> st, lazy |-> lz, fatal |-> ""],
                                 is, ga, cur)
        c2 == process_circle_hit("Hit2", c1, is, ga, cur)
        is_holding == is_key_hold(is, "Hit1") \/ is_key_hold(is, "Hit2")
        s == process_slider_hold(SortedSeq(Sliders(c2.store)),
                                 [store |-> c2.store, events |-> ev, fatal |-> c2.fatal],
                                 is_holding, ga, cur, t)
    IN  [store |-> s.store, lazy |-> c2.lazy, events |-> s.events, fatal |-> s.fatal]

\* number of insert requests for entity id in the queue q
InsertsFor(q, id) ==
    Cardinality({k \in 1..Len(q) : q[k].op = "insert" /\ q[k].id = id})

HitSystemRun ==
    /\ CanRun("hit-system")
    /\ LET r == hit_system(store, lazy, game_events, input_state, game_area,
                           cursor, time)
           is_holding == is_key_hold(input_state, "Hit1") \/ is_key_hold(input_state, "Hit2")
       IN  IF r.fatal # ""
           THEN /\ pc' = r.fatal
                /\ UNCHANGED <<store, lazy, game_events, hist, done>>
           ELSE /\ store' = r.store
                /\ lazy' = r.lazy
                /\ game_events' = r.events
                /\ hist' = [i \in DOMAIN hist |->
                     IF \E id \in DOMAIN store : store[id].src = i
                     THEN LET id == CHOOSE x \in DOMAIN store : store[x].src = i
                              n == InsertsFor(r.lazy, id) - InsertsFor(lazy, id)
                          IN  [hist[i] EXCEPT
                                 !.hit_reqs = @ + n,
                                 !.hit_at = IF @ = -1 /\ n > 0
                                            THEN time.secs_since_start ELSE @,
                                 !.hit_delta = IF hist[i].hit_at = -1 /\ n > 0
                                               THEN time.delta_seconds ELSE @,
                                 !.held_all = @ /\
                                    (store[id].kind = "slider" /\ store[id].remaining <= 0
                                       => is_holding /\ slider_hit_check(game_area, cursor, store[id]))]
                     ELSE hist[i]]
                /\ Ran("hit-system")
                /\ pc' = pc
    /\ UNCHANGED <<beatmap, spawner_index, time, alloc, event_loop_msgs,
                   input_state, cursor, game_area, hp, combo, score, exit, call>>

----------------------------------------------------------------------------
(* systems.rs: CircleLifetimeSystem                                        *)

\* variant: no circle is ever marked as missed
auto_missed_never(st) == {}

\* variant: the rule with a strict comparison
auto_missed_strict(st) == {id \in Circles(st) : st[id].remaining < 0 - HIT_WINDOW}

\* the circles the auto-miss rule marks this frame
auto_missed(st) == {id \in Circles(st) : st[id].remaining <= 0 - HIT_WINDOW}

\* variant: the requests queued before are dropped when a circle is missed
append_misses_only(q, ids) ==
    IF ids = <<>> THEN q
    ELSE [k \in 1..Len(ids) |->
            [op |-> "insert", id |-> ids[k],
             marker |-> [reason |-> [kind |-> "CircleHit", rating |-> "MISS"]]]]

RECURSIVE append_misses(_, _)
\* updater.insert(entity, DespawnObject { CircleHit(MISS), .. }) for each of ids
append_misses(q, ids) ==
    IF ids = <<>> THEN q
    ELSE append_misses(Append(q, InsertOp(Head(ids), CircleHit("MISS"))),
                       Tail(ids))

CircleLifetimeSystemRun ==
    /\ CanRun("circle-lifetime-system")
    /\ lazy' = append_misses(lazy, SortedSeq(auto_missed(store)))
    /\ hist' = [i \in DOMAIN hist |->
                 IF \E id \in auto_missed(store) : store[id].src = i
                 THEN [hist[i] EXCEPT !.miss_frames = @ + 1]
                 ELSE hist[i]]
    /\ Ran("circle-lifetime-system")
    /\ UNCHANGED <<beatmap, spawner_index, time, store, alloc, event_loop_msgs,
                   input_state, cursor, game_area, hp, combo, score,
                   game_events, pc, exit, call>>

----------------------------------------------------------------------------
(* systems.rs: SliderLifetimeSystem                                        *)

\* position on the curve at t = n / d, as a fraction
curve_pos(curve, n, d) ==
    CASE curve.type = "Linear" ->
            [x |-> lerp(curve.start[1], curve.end[1], n, d),
             y |-> lerp(curve.start[2], curve.end[2], n, d),
             den |-> d]
      [] curve.type = "QuadBezier" ->
            [x |-> (d - n) * (d - n) * curve.start[1]
                   + (d - n) * 2 * n * curve.control_point[1]
                   + n * n * curve.end[1],
             y |-> (d - n) * (d - n) * curve.start[2]
                   + (d - n) * 2 * n * curve.control_point[2]
                   + n * n * curve.end[2],
             den |-> d * d]
      [] curve.type = "CubicBezier" ->
            [x |-> (d - n) * (d - n) * (d - n) * curve.start[1]
                   + (d - n) * (d - n) * 3 * n * curve.control_point[1]
                   + (d - n) * 3 * n * n * curve.control_point_2[1]
                   + n * n * n * curve.end[1],
             y |-> (d - n) * (d - n) * (d - n) * curve.start[2]
                   + (d - n) * (d - n) * 3 * n * curve.control_point[2]
                   + (d - n) * 3 * n * n * curve.control_point_2[2]
                   + n * n * n * curve.end[2],
             den |-> d * d * d]

\* variant: the slider is despawned in the state it is in
finish_skipped(state, d) == [change |-> "NoChange", state |-> state]

\* if let SliderState::DRAGGING(v) = slider.state
\*     { slider.go_to_state(FINISHED(v / slider.duration_in_secs, time.now)) }
finish_if_dragging(state, d) ==
    IF state.tag = "DRAGGING"
    THEN go_to_state(state, FINISHED(state.secs, d))
    ELSE [change |-> "NoChange", state |-> state]

\* the loop body for one slider entity e; w = [store, lazy, events, fatal]
slider_lifetime_step(id, w) ==
    LET e == w.store[id]
        sl == e.slider
        n == Abs(e.remaining)
        d == sl.duration_in_secs
    IN  IF e.remaining > 0 THEN w
        ELSE LET moved == [e EXCEPT !.slider.progress = n,
                                    !.pos = curve_pos(sl.curve, n, d)]
             IN  IF n < d THEN [w EXCEPT !.store[id] = moved]
                 ELSE LET g == finish_if_dragging(sl.state, d)
                      IN  IF g.change = "unreachable"
                          THEN [w EXCEPT !.fatal = "panic: unreachable"]
                          ELSE [w EXCEPT
                                  !.store[id] = [moved EXCEPT !.slider.state = g.state],
                                  !.events = emit_on_slider_change(@, g.change),
                                  !.lazy = Append(@,
                                      InsertOp(id, SliderEnd(g.state)))]

RECURSIVE slider_lifetime(_, _)
\* for (entity, lifetime, slider, position) in (..).join()
slider_lifetime(ids, w) ==
    IF ids = <<>> \/ w.fatal # "" THEN w
    ELSE slider_lifetime(Tail(ids), slider_lifetime_step(Head(ids), w))

SliderLifetimeSystemRun ==
    /\ CanRun("slider-lifetime-system")
    /\ LET r == slider_lifetime(SortedSeq(Sliders(store)),
                    [store |-> store, lazy |-> lazy, events |-> game_events,
                     fatal |-> ""])
       IN  IF r.fatal # ""
           THEN /\ pc' = r.fatal
                /\ UNCHANGED <<store, lazy, game_events, done>>
           ELSE /\ store' = r.store
                /\ lazy' = r.lazy
                /\ game_events' = r.events
                /\ Ran("slider-lifetime-system")
                /\ pc' = pc
    /\ UNCHANGED <<beatmap, spawner_index, time, alloc, event_loop_msgs,
                   input_state, cursor, game_area, hp, combo, score, exit,
                   hist, call>>

----------------------------------------------------------------------------
(* systems.rs: LifetimeSystem                                              *)

RECURSIVE append_deletes(_, _)
\* updater.exec_mut(|world| world.delete_entity(entity).unwrap()) for each of ids
append_deletes(q, ids) ==
    IF ids = <<>> THEN q
    ELSE append_deletes(Append(q, DeleteOp(Head(ids))), Tail(ids))

\* variant: flagged entities leave the world while the frame is running
progress_lifetime_delete_now(st, t) ==
    [id \in {i \in DOMAIN st : st[i].despawn = [kind |-> "None"]} |->
        [st[id] EXCEPT !.remaining = @ - t.delta_seconds]]

\* "progress lifetime"
progress_lifetime(st, t) ==
    [id \in DOMAIN st |-> [st[id] EXCEPT !.remaining = @ - t.delta_seconds]]

\* variant: entities whose marker is only requested count as flagged
flagged_or_requested(st, q) ==
    Marked(st) \cup {id \in DOMAIN st : \E k \in 1..Len(q) :
                        q[k].op = "insert" /\ q[k].id = id}

\* "delete flagged entities": the join over despawn_objects of the world
\* st; markers requested in the queue q are not attached yet
flagged(st, q) == Marked(st)

LifetimeSystemRun ==
    /\ CanRun("lifetime-system")
    /\ store' = progress_lifetime(store, time)
    /\ lazy' = append_deletes(lazy, SortedSeq(flagged(store, lazy)))
    /\ Ran("lifetime-system")
    /\ UNCHANGED <<beatmap, spawner_index, time, alloc, event_loop_msgs,
                   input_state, cursor, game_area, hp, combo, score,
                   game_events, pc, exit, hist, call>>

----------------------------------------------------------------------------
(* systems.rs: ScoringSystem                                               *)

\* variant: thresholds that include their own value
pct_ge(pct, tenths) == 10 * pct.num >= tenths * pct.den

\* percent_completed > &0.6, percent_completed > &0.2: pct.num / pct.den
\* against tenths / 10
pct_gt(pct, tenths) == 10 * pct.num > tenths * pct.den

\* the match on object.reason for one marker; s = [hp, combo, score, fatal]
score_marker(reason, s) ==
    IF reason.kind = "CircleHit"
    THEN CASE reason.rating = "MISS" ->
                [s EXCEPT !.hp = Hp_drain(@), !.combo = Combo_reset(@)]
           [] reason.rating = "GOOD" ->
                LET c == Combo_maintain(s.combo)
                IN  [s EXCEPT !.combo = c, !.hp = Hp_fill(@),
                              !.score = Score_on_good(@, c)]
           [] reason.rating = "GREAT" ->
                LET c == Combo_maintain(s.combo)
                IN  [s EXCEPT !.combo = c, !.hp = Hp_fill(Hp_fill(@)),
                              !.score = Score_on_great(@, c)]
    ELSE CASE reason.state.tag = "UNTOUCHED" ->
                [s EXCEPT !.hp = Hp_drain(@), !.combo = Combo_reset(@)]
           [] reason.state.tag = "DRAGGING" ->
                [s EXCEPT !.fatal = "panic: unreachable"]
           [] reason.state.tag = "FINISHED" ->
                LET pct == reason.state.pct
                    c == Combo_maintain(s.combo)
                IN  IF pct_gt(pct, 6)
                    THEN [s EXCEPT !.hp = Hp_fill(@), !.combo = c,
                                   !.score = Score_on_great(@, c)]
                    ELSE IF pct_gt(pct, 2)
                    THEN [s EXCEPT !.hp = Hp_fill(@), !.combo = c,
                                   !.score = Score_on_good(@, c)]
                    ELSE s

RECURSIVE scoring_reversed(_, _, _)
\* variant: the markers are visited from the highest entity id down
scoring_reversed(ids, st, s) ==
    IF ids = <<>> \/ s.fatal # "" THEN s
    ELSE scoring_reversed(SubSeq(ids, 1, Len(ids) - 1), st,
                          score_marker(st[ids[Len(ids)]].despawn.reason, s))

RECURSIVE scoring(_, _, _)
\* for object in (&objects).join()
scoring(ids, st, s) ==
    IF ids = <<>> \/ s.fatal # "" THEN s
    ELSE scoring(Tail(ids), st, score_marker(st[Head(ids)].despawn.reason, s))

ScoringSystemRun ==
    /\ CanRun("scoring-system")
    /\ LET r == scoring(SortedSeq(Marked(store)), store,
                        [hp |-> hp, combo |-> combo, score |-> score, fatal |-> ""])
       IN  IF r.fatal # ""
           THEN /\ pc' = r.fatal
                /\ UNCHANGED <<hp, combo, score, hist, done>>
           ELSE /\ hp' = r.hp
                /\ combo' = r.combo
                /\ score' = r.score
                /\ hist' = [i \in DOMAIN hist |->
                     IF \E id \in Marked(store) : store[id].src = i
                     THEN LET id == CHOOSE x \in Marked(store) : store[x].src = i
                          IN  [hist[i] EXCEPT !.scored = @ + 1,
                                              !.scored_as = store[id].despawn.reason]
                     ELSE hist[i]]
                /\ Ran("scoring-system")
                /\ pc' = pc
    /\ UNCHANGED <<beatmap, spawner_index, time, store, alloc, lazy,
                   event_loop_msgs, input_state, cursor, game_area,
                   game_events, exit, call>>

----------------------------------------------------------------------------
(* rendering_system.rs (thread-local, after every other system)            *)

RenderingSystemRun ==
    /\ pc = "dispatch"
    /\ done = Systems
    /\ game_area' = set_game_area_matrix(ViewMatrix)
    /\ pc' = "maintain"
    /\ UNCHANGED <<beatmap, spawner_index, time, store, alloc, lazy,
                   event_loop_msgs, input_state, cursor, hp, combo, score,
                   game_events, done, exit, hist, call>>

----------------------------------------------------------------------------
(* world.maintain(): the LazyUpdate queue, in the order it was filled      *)

\* variant: a marker is attached only to an entity that has none this far
apply_lazy_op_keep_first(o, w) ==
    CASE o.op = "create" ->
            [w EXCEPT !.store = (o.id :> o.comps) @@ @]
      [] o.op = "insert" ->
            IF o.id \in DOMAIN w.store /\ w.store[o.id].despawn = NoMarker
            THEN [w EXCEPT !.store[o.id].despawn = o.marker]
            ELSE w
      [] o.op = "delete" ->
            IF o.id \in DOMAIN w.store
            THEN [w EXCEPT
                    !.store = [id \in DOMAIN w.store \ {o.id} |-> w.store[id]],
                    !.alloc.cache = Append(@, o.id)]
            ELSE [w EXCEPT !.fatal = "panic: delete_entity"]

\* one queued closure applied to the world; w = [store, alloc, fatal]
apply_lazy_op(o, w) ==
    CASE o.op = "create" ->
            [w EXCEPT !.store = (o.id :> o.comps) @@ @]
      [] o.op = "insert" ->
            \* WriteStorage::insert fails on a dead entity; LazyUpdate only logs it
            IF o.id \in DOMAIN w.store
            THEN [w EXCEPT !.store[o.id].despawn = o.marker]
            ELSE w
      [] o.op = "delete" ->
            \* world.delete_entity(entity).unwrap(); Allocator::kill caches the id
            IF o.id \in DOMAIN w.store
            THEN [w EXCEPT
                    !.store = [id \in DOMAIN w.store \ {o.id} |-> w.store[id]],
                    !.alloc.cache = Append(@, o.id)]
            ELSE [w EXCEPT !.fatal = "panic: delete_entity"]

RECURSIVE apply_lazy(_, _)
apply_lazy(q, w) ==
    IF q = <<>> \/ w.fatal # "" THEN w
    ELSE apply_lazy(Tail(q), apply_lazy_op(Head(q), w))

Maintain ==
    /\ pc = "maintain"
    /\ LET r == apply_lazy(lazy, [store |-> store, alloc |-> alloc, fatal |-> ""])
       IN  IF r.fatal # ""
           THEN /\ pc' = r.fatal
                /\ UNCHANGED <<store, alloc, lazy, hist>>
           ELSE /\ store' = r.store
                /\ alloc' = r.alloc
                /\ lazy' = <<>>
                /\ hist' = [i \in DOMAIN hist |->
                     IF (\E id \in DOMAIN store : store[id].src = i)
                        /\ ~(\E id \in DOMAIN r.store : r.store[id].src = i)
                     THEN [hist[i] EXCEPT !.deleted = TRUE]
                     ELSE hist[i]]
                /\ pc' = "post_frame"
    /\ UNCHANGED <<beatmap, spawner_index, time, event_loop_msgs, input_state,
                   cursor, game_area, hp, combo, score, game_events, done,
                   exit, call>>

----------------------------------------------------------------------------
(* game_thread.rs: after maintain, the queues are cleared and the channel  *)
(* is drained; `exit` ends the loop.                                       *)

RECURSIVE resized_events(_)
resized_events(msgs) ==
    IF msgs = <<>> THEN <<>>
    ELSE (IF Head(msgs).t = "Resized" THEN <<"WindowResized">> ELSE <<>>)
         \o resized_events(Tail(msgs))

\* variant: Quit is pushed like any other message
HasQuit_ignored(msgs) == FALSE

\* EventLoopMsg::Quit => { exit = true; } for some msg of try_iter()
HasQuit(msgs) == \E k \in 1..Len(msgs) : msgs[k].t = "Quit"

PostFrame ==
    /\ pc = "post_frame"
    /\ \E batch \in InputBatches(beatmap) :
         /\ event_loop_msgs' = batch
         /\ game_events' = resized_events(batch)
         /\ exit' = (exit \/ HasQuit(batch))
         /\ pc' = IF exit \/ HasQuit(batch) THEN "exited" ELSE "update_time"
    /\ UNCHANGED <<beatmap, spawner_index, time, store, alloc, lazy,
                   input_state, cursor, game_area, hp, combo, score, done,
                   hist, call>>

----------------------------------------------------------------------------

Next ==
    \/ UpdateTime
    \/ InputSystemRun
    \/ ObjectSpawnerSystemRun
    \/ HitSystemRun
    \/ CircleLifetimeSystemRun
    \/ SliderLifetimeSystemRun
    \/ LifetimeSystemRun
    \/ ScoringSystemRun
    \/ RenderingSystemRun
    \/ Maintain
    \/ PostFrame

Spec == Init /\ [][Next]_vars

\* the same program on one beatmap
SpecCircle == InitWith({CircleMap}) /\ [][Next]_vars
SpecBurst == InitWith({BurstMap}) /\ [][Next]_vars
SpecBadSlider == InitWith({BadSliderMap}) /\ [][Next]_vars
SpecMixed == InitWith({MixedMap}) /\ [][Next]_vars
SpecSlider == InitWith({SliderMap}) /\ [][Next]_vars
SpecEarly == InitWith({EarlyMap}) /\ [][Next]_vars

----------------------------------------------------------------------------
(* Function-level specifications: one call of a function, its arguments    *)
(* drawn from small sets; `call` holds the arguments and the result.       *)

MaxSecs == 2         \* seconds held / durations of the slider states drawn
MaxCombo == 3        \* combo values drawn
MaxTenths == 12      \* percentages drawn run up to MaxTenths / 10

world == <<beatmap, spawner_index, time, store, alloc, lazy, event_loop_msgs,
           input_state, cursor, game_area, hp, combo, score, game_events,
           pc, done, exit, hist>>

SliderStates ==
    {UNTOUCHED}
    \cup {DRAGGING(v) : v \in 0..MaxSecs}
    \cup {FINISHED(n, d) : n \in 0..MaxSecs, d \in 1..MaxSecs}

InitGoToState ==
    /\ InitWorld({SliderMap})
    /\ \E st \in SliderStates, nx \in SliderStates :
          call = [op |-> "go_to_state", state |-> st, next_state |-> nx,
                  returned |-> FALSE, result |-> NoValue]

\* slider.go_to_state(next_state) on a slider in call.state
GoToStateCall ==
    /\ call.op = "go_to_state"
    /\ ~call.returned
    /\ call' = [call EXCEPT !.returned = TRUE,
                            !.result = go_to_state(call.state, call.next_state)]
    /\ UNCHANGED world

SpecGoToState == InitGoToState /\ [][GoToStateCall]_vars

\* DespawnObjectReason values; percentages are drawn over 5 and over 10
Reasons ==
    {CircleHit(r) : r \in {"MISS", "GOOD", "GREAT"}}
    \cup {SliderEnd(UNTOUCHED), SliderEnd(DRAGGING(0))}
    \cup {SliderEnd(FINISHED(n, d)) : n \in 0..MaxTenths, d \in {5, 10}}

InitScoring ==
    /\ InitWorld({CircleMap})
    /\ \E reason \in Reasons, h \in 0..HP_FULL, c \in 0..MaxCombo,
          sc \in {0, 100 * MaxCombo} :
          call = [op |-> "score_marker", reason |-> reason,
                  s |-> [hp |-> h, combo |-> c, score |-> sc, fatal |-> ""],
                  returned |-> FALSE, result |-> NoValue]

\* one iteration of ScoringSystem::run's loop, on the marker call.reason
ScoreMarkerCall ==
    /\ call.op = "score_marker"
    /\ ~call.returned
    /\ call' = [call EXCEPT !.returned = TRUE,
                            !.result = score_marker(call.reason, call.s)]
    /\ UNCHANGED world

SpecScoring == InitScoring /\ [][ScoreMarkerCall]_vars

----------------------------------------------------------------------------
(* Properties.                                                             *)

\* the step in which HitSystem runs
HitStep == "hit-system" \notin done /\ "hit-system" \in done'

BoundKeyActive ==
    is_key_active(input_state, "Hit1") \/ is_key_active(input_state, "Hit2")

\* entity id is the one circle under the cursor
OnlyCircleUnderCursor(id) ==
    /\ id \in Circles(store)
    /\ game_area.matrix.set
    /\ \A c \in Circles(store) : circle_hit_check(game_area, cursor, store[c]) <=> c = id

\* C1 (as claimed): a successful hit (bound key newly active, cursor strictly
\* inside the scaled radius) rates the circle GREAT when remaining is strictly
\* inside the perfect window and GOOD everywhere else in [-0.200, 0.200], both
\* end points included, and requests the marker with that rating.
C1_RatingAsClaimed ==
    [][HitStep /\ BoundKeyActive =>
        \A id \in DOMAIN store :
            OnlyCircleUnderCursor(id) /\ Abs(store[id].remaining) <= HIT_WINDOW =>
                LET expected == IF 3 * Abs(store[id].remaining) < HIT_WINDOW
                                THEN "GREAT" ELSE "GOOD"
                IN  /\ store'[id].rating = expected
                    /\ lazy'[Len(lazy')] = InsertOp(id, CircleHit(expected))]_vars

\* C2: a circle with remaining > 0.200 is outside the hit zone, and HitSystem
\* requests no marker for it and leaves its rating alone, whatever the input.
C2_NotHittableEarly ==
    [][HitStep =>
        \A id \in Circles(store) :
            store[id].remaining > HIT_WINDOW =>
                /\ ~is_in_hit_zone(store[id].remaining)
                /\ store'[id].rating = store[id].rating
                /\ InsertsFor(lazy', id) = InsertsFor(lazy, id)]_vars

\* C2 witness: HitSystem has run with a bound key newly active and the cursor
\* on a circle whose remaining is still above 0.200.
C2_Witness ==
    /\ pc = "dispatch"
    /\ "hit-system" \in done
    /\ "lifetime-system" \notin done
    /\ BoundKeyActive
    /\ \E id \in Circles(store) :
          /\ store[id].remaining > HIT_WINDOW
          /\ OnlyCircleUnderCursor(id)

\* C3 (as claimed): for a circle that is never hit, the auto-miss rule requests
\* the MISS marker in exactly one frame of the entity's life.
C3_MissRequestedInOneFrame ==
    \A i \in DOMAIN hist :
        beatmap.hit_objects[i].object_params.type = "HitCircle"
        /\ hist[i].hit_reqs = 0 =>
            /\ hist[i].miss_frames <= 1
            /\ (hist[i].deleted => hist[i].miss_frames = 1)

\* C1: the frame, the key and the cursor of the refuting run are reachable:
\* HitSystem is about to run with a bound key newly active and the cursor
\* on a circle whose remaining is exactly +0.200.
C1_AtUpperEnd ==
    /\ pc = "dispatch"
    /\ "hit-system" \notin done
    /\ "input-system" \in done
    /\ BoundKeyActive
    /\ \E id \in Circles(store) :
          store[id].remaining = HIT_WINDOW /\ OnlyCircleUnderCursor(id)

----------------------------------------------------------------------------
(* End-to-end runs on CircleMap (one circle scheduled at t = 1.000 s).     *)

\* C4 (as claimed): the circle is hit in the frame whose elapsed time is
\* 1.050 s; once its marker has been scored it was rated GREAT, combo is 1,
\* score is 300 and health is 2 x drain above its starting value.
C4_HealthRisesByTwoDrains ==
    hist[1].hit_at = MsToTicks(1050) /\ hist[1].scored = 1 =>
        /\ hist[1].scored_as = CircleHit("GREAT")
        /\ combo = 1
        /\ score = 300
        /\ hp = HP_FULL + 2 * HP_DRAIN

\* C4 (amended): when a bound key is newly active with the cursor on the
\* circle in the frame whose elapsed time is 1.050 s, and that frame's delta
\* is below 0.1167 s (so that the remaining time HitSystem reads, 1.000 minus
\* the elapsed time of the frame before, is inside the perfect window), the
\* circle is hit and rated GREAT; once its marker has been scored, combo is
\* 1, score is 300 and health is min(1, health + 2 x drain), which from the
\* starting health of 1.0 is 1.0 again.
C4_GreatEndToEnd ==
    /\ (pc = "dispatch"
        /\ "hit-system" \in done
        /\ time.secs_since_start = MsToTicks(1050)
        /\ 3 * time.delta_seconds < HIT_WINDOW + 3
        /\ BoundKeyActive
        /\ (\E id \in Circles(store) : OnlyCircleUnderCursor(id))
        => (hist[1].hit_reqs >= 1
            /\ \A id \in Circles(store) : store[id].rating = "GREAT"))
    /\ (hist[1].hit_at = MsToTicks(1050)
        /\ 3 * hist[1].hit_delta < HIT_WINDOW + 3
        /\ hist[1].scored = 1
        => (hist[1].scored_as = CircleHit("GREAT")
            /\ combo = 1
            /\ score = 300
            /\ hp = min_f64(HP_FULL, HP_FULL + 2 * HP_DRAIN)
            /\ hp = HP_FULL))

\* C4 witness: the circle was first hit in the frame at 1.050 s and its
\* GREAT marker has been scored.
C4_Witness ==
    /\ hist[1].hit_at = MsToTicks(1050)
    /\ hist[1].scored = 1
    /\ hist[1].scored_as = CircleHit("GREAT")

\* C5 (as claimed): the circle is never hit; at the end of any frame whose
\* elapsed time is past 1.201 s it has been scored as MISS (combo 0, health
\* down by drain, score unchanged) and its entity no longer exists.
C5_MissedOncePast1201 ==
    (/\ pc = "post_frame"
     /\ hist[1].hit_reqs = 0
     /\ time.secs_since_start > MsToTicks(1201))
    => /\ hist[1].scored_as = CircleHit("MISS")
       /\ combo = 0
       /\ hp = max_f64(HP_FULL - HP_DRAIN, 0)
       /\ score = 0
       /\ DOMAIN store = {}

\* C5 (amended): the circle is never hit.  At the end of every frame, either
\* its entity still exists and nothing has been scored, and then MISS has
\* been requested in at most one frame so far, it has been requested unless
\* the frame began with remaining > -0.200, and once requested the marker on
\* the entity is CircleHit(MISS); or the entity no longer exists, and then it
\* was scored once, as MISS: combo is 0, health is down by drain and score
\* is unchanged.  So MISS is requested in the first frame after elapsed time
\* has reached 1.200 s and is scored, and the entity deleted, in the frame
\* after that one.
C5_MissEndToEnd ==
    (pc = "post_frame" /\ hist[1].spawned /\ hist[1].hit_reqs = 0) =>
        IF DOMAIN store # {}
        THEN \A id \in DOMAIN store :
                /\ ~hist[1].deleted
                /\ hist[1].scored = 0
                /\ hp = HP_FULL /\ combo = 0 /\ score = 0
                /\ hist[1].miss_frames <= 1
                /\ (hist[1].miss_frames = 0 =>
                        /\ store[id].remaining + time.delta_seconds > 0 - HIT_WINDOW
                        /\ store[id].despawn = NoMarker)
                /\ (hist[1].miss_frames = 1 =>
                        /\ store[id].despawn # NoMarker
                        /\ store[id].despawn.reason = CircleHit("MISS"))
        ELSE /\ hist[1].deleted
             /\ hist[1].scored = 1
             /\ hist[1].scored_as = CircleHit("MISS")
             /\ combo = 0
             /\ hp = max_f64(HP_FULL - HP_DRAIN, 0)
             /\ score = 0

\* C5 witness: a frame has ended with the never-hit circle scored as MISS
\* and its entity gone.
C5_Witness ==
    /\ pc = "post_frame"
    /\ hist[1].hit_reqs = 0
    /\ hist[1].deleted
    /\ hist[1].scored_as = CircleHit("MISS")
    /\ DOMAIN store = {}

----------------------------------------------------------------------------
(* End-to-end run on SliderMap (a 2-point slider of duration 1.0 s         *)
(* scheduled at t = 2.000 s).                                              *)

\* C6 (as claimed): when a bound key was held with the cursor inside the
\* slider's hit radius in every frame of the slider's duration, the despawn
\* marker carries FINISHED(1.0, _).  The percentage is seconds held over the
\* duration; it is allowed to miss 1.0 by the length of one frame.
C6_HeldSliderFinishesAtOne ==
    \A id \in Sliders(store) :
        store[id].despawn # NoMarker /\ hist[store[id].src].held_all =>
            /\ store[id].despawn.reason.kind = "SliderEnd"
            /\ store[id].despawn.reason.state.tag = "FINISHED"
            /\ Abs(store[id].despawn.reason.state.pct.num
                   - store[id].despawn.reason.state.pct.den) <= MaxDelta

----------------------------------------------------------------------------
(* Slider::go_to_state and the rules of ScoringSystem, as functions.       *)

\* C7: go_to_state reports Start for UNTOUCHED -> DRAGGING and FINISHED ->
\* DRAGGING, Stop for DRAGGING -> FINISHED, NoChange for DRAGGING ->
\* DRAGGING, FINISHED -> FINISHED and UNTOUCHED -> FINISHED; a request for
\* UNTOUCHED is fatal from every state, and only that; in every other case
\* the state afterwards is the requested one.
C7_GoToStateTable ==
    call.op = "go_to_state" /\ call.returned =>
        LET from == call.state.tag
            to == call.next_state.tag
            r == call.result
        IN  /\ (from = "UNTOUCHED" /\ to = "DRAGGING" => r.change = "Start")
            /\ (from = "DRAGGING" /\ to = "FINISHED" => r.change = "Stop")
            /\ (from = "FINISHED" /\ to = "DRAGGING" => r.change = "Start")
            /\ (from = "DRAGGING" /\ to = "DRAGGING" => r.change = "NoChange")
            /\ (from = "FINISHED" /\ to = "FINISHED" => r.change = "NoChange")
            /\ (from = "UNTOUCHED" /\ to = "FINISHED" => r.change = "NoChange")
            /\ (to = "UNTOUCHED" <=> r.change = "unreachable")
            /\ (to # "UNTOUCHED" => r.state = call.next_state)

\* C7 witness: a finished slider has been grabbed again, and the state it
\* was asked to take differs from the one it had.
C7_Witness ==
    /\ call.op = "go_to_state"
    /\ call.returned
    /\ call.state = FINISHED(1, 2)
    /\ call.next_state = DRAGGING(1)
    /\ call.result.change = "Start"

\* C8: for a CircleHit marker, MISS gives health = max(0, health - drain),
\* combo = 0, score unchanged; GOOD gives combo + 1, health = min(1, health +
\* drain), score + (new combo) x 100; GREAT gives combo + 1, health = min(1,
\* health + 2 x drain), score + (new combo) x 300.
C8_CircleScoringRules ==
    (call.op = "score_marker" /\ call.returned
     /\ call.reason.kind = "CircleHit") =>
        LET s == call.s
            r == call.result
            rating == call.reason.rating
        IN  /\ r.fatal = ""
            /\ (rating = "MISS" =>
                    /\ r.hp = (IF s.hp - HP_DRAIN > 0 THEN s.hp - HP_DRAIN ELSE 0)
                    /\ r.combo = 0
                    /\ r.score = s.score)
            /\ (rating = "GOOD" =>
                    /\ r.combo = s.combo + 1
                    /\ r.hp = (IF s.hp + HP_DRAIN < HP_FULL
                               THEN s.hp + HP_DRAIN ELSE HP_FULL)
                    /\ r.score = s.score + (s.combo + 1) * 100)
            /\ (rating = "GREAT" =>
                    /\ r.combo = s.combo + 1
                    /\ r.hp = (IF s.hp + 2 * HP_DRAIN < HP_FULL
                               THEN s.hp + 2 * HP_DRAIN ELSE HP_FULL)
                    /\ r.score = s.score + (s.combo + 1) * 300)

\* C8 witness: a GREAT marker has been scored on a running combo, from a
\* health one drain below full, where the ceiling cuts the second fill.
C8_Witness ==
    /\ call.op = "score_marker"
    /\ call.returned
    /\ call.reason = CircleHit("GREAT")
    /\ call.s.hp = HP_FULL - HP_DRAIN
    /\ call.s.combo = 2
    /\ call.result.score = call.s.score + 900

\* C9: for a SliderEnd marker, UNTOUCHED drains health by drain (floor 0) and
\* resets combo to 0; FINISHED(pct, _) with pct > 0.6 gives health + drain
\* (ceiling 1), combo + 1, score + (new combo) x 300; with 0.2 < pct <= 0.6
\* the same with x 100; with pct <= 0.2 score, combo and health stay as they
\* were.
C9_SliderScoringRules ==
    (call.op = "score_marker" /\ call.returned
     /\ call.reason.kind = "SliderEnd"
     /\ call.reason.state.tag # "DRAGGING") =>
        LET s == call.s
            r == call.result
            st == call.reason.state
            filled == IF s.hp + HP_DRAIN < HP_FULL
                      THEN s.hp + HP_DRAIN ELSE HP_FULL
        IN  /\ r.fatal = ""
            /\ (st.tag = "UNTOUCHED" =>
                    /\ r.hp = (IF s.hp - HP_DRAIN > 0 THEN s.hp - HP_DRAIN ELSE 0)
                    /\ r.combo = 0)
            /\ (st.tag = "FINISHED" /\ 10 * st.pct.num > 6 * st.pct.den =>
                    /\ r.hp = filled
                    /\ r.combo = s.combo + 1
                    /\ r.score = s.score + (s.combo + 1) * 300)
            /\ (st.tag = "FINISHED" /\ 10 * st.pct.num <= 6 * st.pct.den
                 /\ 10 * st.pct.num > 2 * st.pct.den =>
                    /\ r.hp = filled
                    /\ r.combo = s.combo + 1
                    /\ r.score = s.score + (s.combo + 1) * 100)
            /\ (st.tag = "FINISHED" /\ 10 * st.pct.num <= 2 * st.pct.den =>
                    /\ r.hp = s.hp
                    /\ r.combo = s.combo
                    /\ r.score = s.score)

\* C9 witness: a slider finished at exactly 0.6 has been scored, on a
\* running combo and below full health.
C9_Witness ==
    /\ call.op = "score_marker"
    /\ call.returned
    /\ call.reason = SliderEnd(FINISHED(6, 10))
    /\ call.s.combo = 1
    /\ call.s.hp < HP_FULL
    /\ call.result.score = call.s.score + 200

----------------------------------------------------------------------------
(* Scoring and deletion of marked entities, on every beatmap.              *)

\* the entity of hit object i is deleted in this step
DeletedNow(i) == ~hist[i].deleted /\ hist'[i].deleted

\* C10: no hit object's entity is scored in two frames and none is deleted
\* unscored; a marked entity has been scored by the time its frame reaches
\* maintain; and an entity is deleted only by maintain, in a frame in which
\* ScoringSystem has run and read the marker the entity carries.
C10_ScoredOnceThenDeleted ==
    /\ [](\A i \in DOMAIN hist :
            /\ hist[i].scored <= 1
            /\ (hist[i].deleted => hist[i].scored = 1))
    /\ [](pc = "maintain" =>
            \A id \in Marked(store) : hist[store[id].src].scored = 1)
    /\ [][\A i \in DOMAIN hist :
            DeletedNow(i) =>
                /\ pc = "maintain"
                /\ "scoring-system" \in done
                /\ \E id \in Marked(store) :
                      /\ store[id].src = i
                      /\ hist[i].scored_as = store[id].despawn.reason
                /\ hist[i].scored = 1]_vars

\* C10 witness: a circle that was hit has been scored with the marker of
\* that hit and then deleted by maintain.
C10_Witness ==
    /\ pc = "post_frame"
    /\ \E i \in DOMAIN hist :
          /\ hist[i].deleted
          /\ hist[i].scored = 1
          /\ hist[i].hit_reqs > 0
          /\ hist[i].scored_as.kind = "CircleHit"

----------------------------------------------------------------------------
(* Sliders at expiry (SliderMap).                                          *)

\* the step in which SliderLifetimeSystem runs
SliderLifetimeStep ==
    "slider-lifetime-system" \notin done /\ "slider-lifetime-system" \in done'

\* C11: no marker, attached or requested, carries SliderEnd(DRAGGING(_)) and
\* the game thread never stops on an unreachable!(); a slider that is
\* DRAGGING(v) when SliderLifetimeSystem finds |remaining| >= duration is
\* moved to FINISHED(v / duration, _) and the marker requested carries that
\* state.
C11_NeverDespawnedDragging ==
    /\ [](/\ pc # "panic: unreachable"
          /\ \A id \in Marked(store) :
                store[id].despawn.reason.kind = "SliderEnd" =>
                    store[id].despawn.reason.state.tag # "DRAGGING"
          /\ \A k \in 1..Len(lazy) :
                (lazy[k].op = "insert"
                 /\ lazy[k].marker.reason.kind = "SliderEnd") =>
                    lazy[k].marker.reason.state.tag # "DRAGGING")
    /\ [][SliderLifetimeStep =>
            \A id \in Sliders(store) :
                (/\ store[id].slider.state.tag = "DRAGGING"
                 /\ store[id].remaining <= 0
                 /\ Abs(store[id].remaining) >= store[id].slider.duration_in_secs)
                => /\ store'[id].slider.state =
                        FINISHED(store[id].slider.state.secs,
                                 store[id].slider.duration_in_secs)
                   /\ \E k \in 1..Len(lazy') :
                        lazy'[k] = InsertOp(id, SliderEnd(store'[id].slider.state))]_vars

\* C11 witness: the slider was held through its expiry frame, so that
\* SliderLifetimeSystem found it DRAGGING, and the marker requested for it
\* carries a FINISHED state with time held.
C11_Witness ==
    /\ pc = "dispatch"
    /\ "slider-lifetime-system" \in done
    /\ hist[1].held_all
    /\ \E k \in 1..Len(lazy) :
          /\ lazy[k].op = "insert"
          /\ lazy[k].marker.reason.kind = "SliderEnd"
          /\ lazy[k].marker.reason.state.tag = "FINISHED"
          /\ lazy[k].marker.reason.state.pct.num > 0

----------------------------------------------------------------------------
(* Marker requests over an entity's life.                                  *)

\* the inserts of a DespawnObject on entity id waiting in the queue q
PendingMarkers(q, id) ==
    Cardinality({k \in 1..Len(q) : q[k].op = "insert" /\ q[k].id = id})

\* C12 (as claimed): an entity has at most one marker, requested or attached:
\* no system requests a DespawnObject for an entity that already carries one
\* or has one waiting in the queue.
C12_OneMarkerPerLifetime ==
    \A id \in DOMAIN store :
        PendingMarkers(lazy, id)
            + (IF store[id].despawn # NoMarker THEN 1 ELSE 0) <= 1

\* C13 (as claimed): once a circle's rating is GOOD or GREAT it keeps that
\* rating in every later step for as long as the entity exists.
C13_RatingSetOnce ==
    [][\A id \in Circles(store) \cap DOMAIN store' :
          store[id].rating # "MISS" => store'[id].rating = store[id].rating]_vars

----------------------------------------------------------------------------
(* The spawner over a beatmap of several objects (BurstMap).               *)

\* the step in which ObjectSpawnerSystem runs
SpawnerStep ==
    "object-spawner-system" \notin done /\ "object-spawner-system" \in done'

\* the beatmap objects for which a create is requested by this step
CreatedBy(q, q2) ==
    {q2[k].comps.src : k \in {j \in (Len(q) + 1)..Len(q2) : q2[j].op = "create"}}

\* the objects at or after the spawner's cursor whose lead time has begun
DueEvents ==
    {i \in (spawner_index + 1)..Len(beatmap.hit_objects) :
        time.secs_since_start + LIFETIME >=
            beatmap.hit_objects[i].time_offset_in_secs}

\* C14: every object is created at most once and in list order: the objects
\* created so far are exactly those before the cursor, no two entities come
\* from one object, the cursor never decreases, and it advances, by exactly
\* one, exactly in the spawner step that requests the entity of the object
\* under it, which happens only when elapsed + 0.700 s >= the object's time.
C14_OneEntityPerEventInOrder ==
    /\ [](/\ \A i \in DOMAIN hist : hist[i].spawned <=> i <= spawner_index
          /\ \A a, b \in DOMAIN store :
                store[a].src = store[b].src => a = b
          /\ \A a \in DOMAIN store : store[a].src <= spawner_index)
    /\ [][/\ spawner_index' >= spawner_index
          /\ spawner_index' <= spawner_index + 1
          /\ IF spawner_index' = spawner_index + 1
             THEN /\ SpawnerStep
                  /\ time.secs_since_start + LIFETIME >=
                        beatmap.hit_objects[spawner_index + 1].time_offset_in_secs
                  /\ ~hist[spawner_index + 1].spawned
                  /\ Len(lazy') = Len(lazy) + 1
                  /\ CreatedBy(lazy, lazy') = {spawner_index + 1}
             ELSE CreatedBy(lazy, lazy') = {}]_vars

\* C14 witness: all four objects of the beatmap have been created, one
\* entity each, and all four entities exist.
C14_Witness ==
    /\ pc = "post_frame"
    /\ spawner_index = Len(beatmap.hit_objects)
    /\ Len(beatmap.hit_objects) = 4
    /\ {store[id].src : id \in DOMAIN store} = 1..4
    /\ Cardinality(DOMAIN store) = 4

\* C15: a spawner step requests at most one entity, and no other step of
\* the frame requests any; when the object under the cursor is due it is the
\* one created in that frame and every other due object stays uncreated; the
\* elapsed time never decreases, so a due object stays due and a backlog of
\* k due objects is worked off one per frame in the k - 1 frames that follow.
C15_OneEntityPerFrame ==
    [][/\ time'.secs_since_start >= time.secs_since_start
       /\ ~SpawnerStep => CreatedBy(lazy, lazy') = {}
       /\ SpawnerStep =>
            /\ Cardinality(CreatedBy(lazy, lazy')) <= 1
            /\ Len(lazy') <= Len(lazy) + 1
            /\ (DueEvents # {} =>
                    /\ spawner_index + 1 \in DueEvents
                    /\ CreatedBy(lazy, lazy') = {spawner_index + 1}
                    /\ spawner_index' = spawner_index + 1
                    /\ \A i \in DueEvents \ {spawner_index + 1} :
                          ~hist'[i].spawned)
            /\ (DueEvents = {} => CreatedBy(lazy, lazy') = {})]_vars

\* C15 witness: the spawner has just run in a frame in which three objects
\* were due, and one create is waiting.
C15_Witness ==
    /\ pc = "dispatch"
    /\ done = {"object-spawner-system"}
    /\ spawner_index = 1
    /\ Cardinality(DueEvents) = 2
    /\ Len(lazy) = 1
    /\ lazy[1].op = "create"

----------------------------------------------------------------------------
(* Structural changes and the maintain barrier.                            *)

\* the step that is world.maintain()
MaintainStep == pc = "maintain" /\ pc' = "post_frame"

\* the ids the queue q asks to delete
DeleteRequested(q) == {q[k].id : k \in {j \in 1..Len(q) : q[j].op = "delete"}}

\* C16: in every step other than maintain the set of entities and the
\* marker attached to each entity stay as they are, and requests are only
\* added to the queue; maintain applies the whole queue at once: every
\* created entity exists afterwards, every entity whose deletion was asked is
\* gone, every surviving entity carries the last marker requested for it,
\* entities without a request are untouched, and the queue is empty.
C16_DeferredStructuralMutation ==
    [][IF MaintainStep
       THEN /\ lazy' = <<>>
            /\ DOMAIN store' =
                 (DOMAIN store \cup
                    {lazy[k].id : k \in {j \in 1..Len(lazy) : lazy[j].op = "create"}})
                 \ DeleteRequested(lazy)
            /\ \A id \in DOMAIN store' :
                 IF PendingMarkers(lazy, id) = 0
                 THEN id \in DOMAIN store
                        => store'[id].despawn = store[id].despawn
                 ELSE \E k \in 1..Len(lazy) :
                        /\ lazy[k].op = "insert" /\ lazy[k].id = id
                        /\ \A j \in (k + 1)..Len(lazy) :
                              ~(lazy[j].op = "insert" /\ lazy[j].id = id)
                        /\ store'[id].despawn = lazy[k].marker
       ELSE /\ DOMAIN store' = DOMAIN store
            /\ \A id \in DOMAIN store : store'[id].despawn = store[id].despawn
            /\ Len(lazy') >= Len(lazy)
            /\ SubSeq(lazy', 1, Len(lazy)) = lazy]_vars

\* C16 witness: maintain is about to run with a marker and a deletion
\* requested for an entity that is still in the world and still matched by
\* the joins of this frame.
C16_Witness ==
    /\ pc = "maintain"
    /\ \E id \in DOMAIN store :
          /\ PendingMarkers(lazy, id) > 0
          /\ id \in DeleteRequested(lazy)

----------------------------------------------------------------------------
(* InputSystem::run on its own, frame after frame, over drawn messages.    *)

MaxMsgs == 2         \* messages in one frame's batch

Keys == {"G", "H"}

\* the messages a frame's batch is drawn from
InputMsgs ==
    {KeyPressed(k) : k \in Keys} \cup {KeyReleased(k) : k \in Keys}
    \cup {MouseMovedBy(100, 100)}

InputFrames == UNION {[1..n -> InputMsgs] : n \in 0..MaxMsgs}

\* the kind of the last key event for key k in msgs, or prev when msgs has none
LastKeyEvent(msgs, k, prev) ==
    LET at == {j \in 1..Len(msgs) :
                 msgs[j].t \in {"KeyPressed", "KeyReleased"} /\ msgs[j].key = k}
    IN  IF at = {} THEN prev
        ELSE LET j == CHOOSE x \in at : \A y \in at : y <= x
             IN  IF msgs[j].t = "KeyPressed" THEN "down" ELSE "up"

InitInput ==
    /\ InitWorld({CircleMap})
    /\ call = [op |-> "InputSystem::run", msgs |-> <<>>,
               input_state |-> input_state, cursor |-> cursor,
               last_event |-> [k \in Keys |-> "none"], ran |-> FALSE]

\* one frame: the resource Vec<EventLoopMsg> holds the batch drawn and
\* InputSystem::run is applied to the input state the last frame left
InputSystemCall ==
    /\ call.op = "InputSystem::run"
    /\ \E batch \in InputFrames :
          LET s == apply_msgs(batch,
                              [input_state |-> clear_frame(call.input_state),
                               cursor |-> call.cursor])
          IN  call' = [call EXCEPT
                         !.msgs = batch,
                         !.input_state = s.input_state,
                         !.cursor = s.cursor,
                         !.last_event =
                             [k \in Keys |-> LastKeyEvent(batch, k, @[k])],
                         !.ran = TRUE]
    /\ UNCHANGED world

SpecInput == InitInput /\ [][InputSystemCall]_vars

\* C17: after InputSystem has run on a frame's messages, active_set is
\* exactly the keys with a KeyPressed among those messages, whatever the
\* frames before held and whether or not a KeyReleased follows, and hold_set
\* is exactly the keys whose most recent key event over all frames so far
\* is a KeyPressed.
C17_InputMapping ==
    (call.op = "InputSystem::run" /\ call.ran) =>
        /\ call.input_state.active_set =
              {k \in Keys : \E j \in 1..Len(call.msgs) :
                                call.msgs[j] = KeyPressed(k)}
        /\ call.input_state.hold_set =
              {k \in Keys : call.last_event[k] = "down"}

\* C17 witness: G is pressed and released within the frame while H is
\* still down from an earlier frame: G is active and not held, H is held
\* and not active.
C17_Witness ==
    /\ call.op = "InputSystem::run"
    /\ call.ran
    /\ call.msgs = <<KeyPressed("G"), KeyReleased("G")>>
    /\ call.input_state.active_set = {"G"}
    /\ call.input_state.hold_set = {"H"}

----------------------------------------------------------------------------
(* Slider hold events (SliderMap).                                         *)

\* the events this step adds to GameEvents
Emitted == SubSeq(game_events', Len(game_events) + 1, Len(game_events'))

\* C18: a step of HitSystem or SliderLifetimeSystem emits SliderStart, once,
\* exactly when it takes the slider from UNTOUCHED or FINISHED to DRAGGING,
\* SliderStop, once, exactly when it takes the slider from DRAGGING to
\* FINISHED, and nothing when the slider stays DRAGGING, FINISHED or
\* UNTOUCHED; no other step changes the state of a slider or emits a slider
\* event.
C18_SliderEventsPerEdge ==
    [][IF HitStep \/ SliderLifetimeStep
       THEN /\ Sliders(store) = {} => Emitted = <<>>
            /\ \A id \in Sliders(store) :
                 LET a == store[id].slider.state.tag
                     b == store'[id].slider.state.tag
                 IN  /\ (a # "DRAGGING" /\ b = "DRAGGING")
                            => Emitted = <<"SliderStart">>
                     /\ (a = "DRAGGING" /\ b = "FINISHED")
                            => Emitted = <<"SliderStop">>
                     /\ a = b => Emitted = <<>>
                     /\ \/ a = b
                        \/ a # "DRAGGING" /\ b = "DRAGGING"
                        \/ a = "DRAGGING" /\ b = "FINISHED"
       ELSE /\ \A id \in Sliders(store) \cap DOMAIN store' :
                 store'[id].slider.state = store[id].slider.state
            /\ \A k \in (Len(game_events) + 1)..Len(game_events') :
                 game_events'[k] \notin {"SliderStart", "SliderStop"}]_vars

\* C18 witness: HitSystem has just taken a slider from FINISHED, with time
\* held before, back to DRAGGING, and SliderStart is this frame's one event.
C18_Witness ==
    /\ pc = "dispatch"
    /\ "hit-system" \in done
    /\ "slider-lifetime-system" \notin done
    /\ game_events = <<"SliderStart">>
    /\ \E id \in Sliders(store) :
          /\ store[id].slider.state.tag = "DRAGGING"
          /\ store[id].slider.state.secs > 0

----------------------------------------------------------------------------
(* ScoringSystem::run over one marker sequence, in two different runs.     *)

MaxMarkers == 2      \* markers in the sequence drawn

\* the reasons the sequence is drawn from
ReplayReasons ==
    {CircleHit(r) : r \in {"MISS", "GOOD", "GREAT"}}
    \cup {SliderEnd(UNTOUCHED)}
    \cup {SliderEnd(FINISHED(n, 10)) : n \in {1, 5, 9}}

MarkerSeqs == UNION {[1..n -> ReplayReasons] : n \in 0..MaxMarkers}

\* a world whose DespawnObject storage holds `markers`, in join order, on
\* the entities base, base + 1, ..; the other components are `comps`
MarkerWorld(markers, base, comps) ==
    [id \in {base + j - 1 : j \in 1..Len(markers)} |->
        [comps EXCEPT !.despawn = [reason |-> markers[id - base + 1]]]]

InitReplay ==
    /\ InitWorld({CircleMap})
    /\ \E ms \in MarkerSeqs, h \in {HP_FULL \div 2, HP_FULL},
          c \in {0, MaxCombo} :
          LET s0 == [hp |-> h, combo |-> c, score |-> 100 * c, fatal |-> ""]
          IN  call = [op |-> "ScoringSystem::run", markers |-> ms, s0 |-> s0,
                      whole |-> [ran |-> FALSE, s |-> s0],
                      frames |-> [k |-> 0, s |-> s0]]

\* first run: every marker is attached when ScoringSystem runs, once
ScoringRunWhole ==
    /\ call.op = "ScoringSystem::run"
    /\ ~call.whole.ran
    /\ LET st == MarkerWorld(call.markers, 0,
                    [src |-> 1, kind |-> "circle",
                     pos |-> [x |-> 100, y |-> 100, den |-> 1],
                     remaining |-> 0, rating |-> "MISS",
                     slider |-> NoSlider, despawn |-> NoMarker])
       IN  call' = [call EXCEPT
                      !.whole = [ran |-> TRUE,
                                 s |-> scoring(SortedSeq(Marked(st)), st, call.s0)]]
    /\ UNCHANGED world

\* second run: one marker per frame, each on another entity of another
\* world; Hp, Combo and Score are carried from frame to frame
ScoringRunFrame ==
    /\ call.op = "ScoringSystem::run"
    /\ call.frames.k < Len(call.markers)
    /\ LET k == call.frames.k + 1
           st == MarkerWorld(<<call.markers[k]>>, 2 * k + 1,
                    [src |-> 1, kind |-> "circle",
                     pos |-> [x |-> 0, y |-> 0, den |-> 1],
                     remaining |-> 0 - k, rating |-> "GREAT",
                     slider |-> NoSlider, despawn |-> NoMarker])
       IN  call' = [call EXCEPT
                      !.frames = [k |-> k,
                                  s |-> scoring(SortedSeq(Marked(st)), st,
                                                call.frames.s)]]
    /\ UNCHANGED world

SpecReplay == InitReplay /\ [][ScoringRunWhole \/ ScoringRunFrame]_vars

----------------------------------------------------------------------------
(* The curve evaluation of SliderLifetimeSystem on its own.                *)

MaxCoord == 1        \* control point coordinates run from -50 to 50 * MaxCoord

Coords == {50 * c : c \in (0 - 1)..MaxCoord}
Points == {<<x, y>> : x \in Coords, y \in Coords}

\* SliderCurve values, built as the spawner builds them from a start point
\* and 1, 2 or 3 curve points
Curves ==
    {slider_curve([x |-> p[1][1], y |-> p[1][2]], SubSeq(p, 2, Len(p))) :
        p \in UNION {[1..n -> Points] : n \in 2..4}}

InitCurve ==
    /\ InitWorld({SliderMap})
    /\ \E c \in Curves, d \in 1..MaxSecs :
          \E n \in 0..d :
            call = [op |-> "curve_pos", curve |-> c, n |-> n, d |-> d,
                    returned |-> FALSE, result |-> NoValue]

\* the match on slider.curve at t = call.n / call.d
CurvePosCall ==
    /\ call.op = "curve_pos"
    /\ ~call.returned
    /\ call' = [call EXCEPT !.returned = TRUE,
                            !.result = curve_pos(call.curve, call.n, call.d)]
    /\ UNCHANGED world

SpecCurve == InitCurve /\ [][CurvePosCall]_vars

\* C20: for a linear, quadratic or cubic curve over any control points, the
\* position evaluated at t = 0 is the start point and the position evaluated
\* at t = 1 is the end point.
C20_CurveEndpoints ==
    (call.op = "curve_pos" /\ call.returned) =>
        /\ call.curve.type \in {"Linear", "QuadBezier", "CubicBezier"}
        /\ call.n = 0 =>
              /\ call.result.x = call.result.den * call.curve.start[1]
              /\ call.result.y = call.result.den * call.curve.start[2]
        /\ call.n = call.d =>
              /\ call.result.x = call.result.den * call.curve.end[1]
              /\ call.result.y = call.result.den * call.curve.end[2]

\* C20 witness: a cubic curve whose four control points are not all equal
\* has been evaluated at t = 1.
C20_Witness ==
    /\ call.op = "curve_pos"
    /\ call.returned
    /\ call.curve.type = "CubicBezier"
    /\ call.n = call.d
    /\ call.d > 1
    /\ call.curve.start # call.curve.end
    /\ call.curve.control_point # call.curve.end
    /\ call.curve.control_point_2 # call.curve.start

----------------------------------------------------------------------------
(* The timing point lookup of the spawner on its own.                      *)

MaxPoints == 2       \* timing points lie at 0, 500, .., 500 * MaxPoints ms

TimingKeys == {500 * i : i \in 0..MaxPoints}

\* timing_points_lookup: any set of timing points, each with a beat length
\* of its own
TimingLookups ==
    {[k \in ks |-> 300 + k] : ks \in SUBSET TimingKeys}

\* object times: on, between, and after the timing points
ObjectTimes == {250 * i : i \in 0..(2 * MaxPoints + 1)}

InitTiming ==
    /\ InitWorld({SliderMap})
    /\ \E f \in {"btree_gt", "btree_less", "closest_timing_point"},
          bt \in TimingLookups, key \in ObjectTimes :
          call = [op |-> f, btree |-> bt, key |-> key,
                  returned |-> FALSE, result |-> NoValue]

BtreeGtCall ==
    /\ call.op = "btree_gt"
    /\ ~call.returned
    /\ call' = [call EXCEPT !.returned = TRUE,
                            !.result = btree_gt(call.btree, call.key)]
    /\ UNCHANGED world

BtreeLessCall ==
    /\ call.op = "btree_less"
    /\ ~call.returned
    /\ call' = [call EXCEPT !.returned = TRUE,
                            !.result = btree_less(call.btree, call.key)]
    /\ UNCHANGED world

\* btree_gt(..).unwrap_or_else(|| btree_less(..)) for an object at call.key
TimingPointCall ==
    /\ call.op = "closest_timing_point"
    /\ ~call.returned
    /\ call' = [call EXCEPT
                   !.returned = TRUE,
                   !.result = closest_timing_point(
                                 [timing_points |-> call.btree],
                                 [time_offset_in_millis |-> call.key])]
    /\ UNCHANGED world

SpecTiming ==
    InitTiming /\ [][BtreeGtCall \/ BtreeLessCall \/ TimingPointCall]_vars

\* the timing points at or after key, and those strictly before it
AtOrAfter(btree, key) == {k \in DOMAIN btree : k >= key}
Before(btree, key) == {k \in DOMAIN btree : k < key}

\* r is the entry of btree whose time is the least of ks, or None
IsLeastOf(r, btree, ks) ==
    IF ks = {} THEN ~r.some
    ELSE r.some /\ \E k \in ks : r.v = btree[k] /\ \A j \in ks : k <= j

\* r is the entry of btree whose time is the greatest of ks, or None
IsGreatestOf(r, btree, ks) ==
    IF ks = {} THEN ~r.some
    ELSE r.some /\ \E k \in ks : r.v = btree[k] /\ \A j \in ks : k >= j

\* C21: btree_gt returns the entry with the smallest time >= the key and
\* btree_less the entry with the largest time < the key, each None when
\* there is no such entry; the beat length taken for an object is that of
\* the first when it exists, an entry at the object's own time included, and
\* that of the second only when it does not.
C21_TimingPointTieBreak ==
    call.returned =>
        /\ call.op = "btree_gt" =>
              IsLeastOf(call.result, call.btree, AtOrAfter(call.btree, call.key))
        /\ call.op = "btree_less" =>
              IsGreatestOf(call.result, call.btree, Before(call.btree, call.key))
        /\ call.op = "closest_timing_point" =>
              IF AtOrAfter(call.btree, call.key) # {}
              THEN /\ IsLeastOf(call.result, call.btree,
                                AtOrAfter(call.btree, call.key))
                   /\ call.key \in DOMAIN call.btree
                        => call.result.v = call.btree[call.key]
              ELSE IsGreatestOf(call.result, call.btree,
                                Before(call.btree, call.key))

\* C21 witness: an object lies exactly on a timing point that has a
\* neighbour on either side, and the lookup has returned for it.
C21_Witness ==
    /\ call.op = "closest_timing_point"
    /\ call.returned
    /\ call.key \in DOMAIN call.btree
    /\ Before(call.btree, call.key) # {}
    /\ AtOrAfter(call.btree, call.key) # {call.key}
    /\ call.result = Some(call.btree[call.key])

----------------------------------------------------------------------------
(* A slider with an unsupported number of curve points (BadSliderMap).     *)

\* the beatmap holds a slider whose curve-point count is not 1, 2 or 3
HasUnsupportedSlider(bm) ==
    \E i \in 1..Len(bm.hit_objects) :
        /\ bm.hit_objects[i].object_params.type = "Slider"
        /\ Len(bm.hit_objects[i].object_params.curve_points) \notin {1, 2, 3}

\* C22 (as claimed): of a beatmap that holds a slider with an unsupported
\* curve-point count no object is ever spawned: the spawner's cursor stays
\* at the first object and the world stays empty.
C22_NoPartialBeatmap ==
    HasUnsupportedSlider(beatmap) =>
        /\ spawner_index = 0
        /\ DOMAIN store = {}
        /\ \A i \in DOMAIN hist : ~hist[i].spawned

\* C22: the run the code makes of such a beatmap: the circle before the
\* slider was spawned, judged, scored and deleted in frames that ran to
\* their end, and the fatal error is raised by the spawner only in the
\* frame in which the slider falls due.
C22_FatalAtSpawn ==
    /\ HasUnsupportedSlider(beatmap)
    /\ pc = "panic: unimplemented"
    /\ spawner_index = 1
    /\ hist[1].spawned
    /\ hist[1].scored > 0
    /\ hist[1].deleted

----------------------------------------------------------------------------
(* Quit and the frame loop.                                                *)

\* a Quit is among the messages this step takes from the channel
QuitTaken ==
    /\ pc = "post_frame"
    /\ pc' # "post_frame"
    /\ \E k \in 1..Len(event_loop_msgs') : event_loop_msgs'[k].t = "Quit"

\* C23: Quit is taken from the channel only after a frame's maintain; the
\* step that takes it ends the loop, and it is the only step that does;
\* after it no clock update, dispatch or maintain happens; and a frame whose
\* clock update has run always goes on through dispatch to its maintain.
C23_QuitHaltsAfterMaintain ==
    /\ [](exit <=> pc = "exited")
    /\ [][/\ QuitTaken => (exit' /\ pc' = "exited")
          /\ pc' = "exited" => QuitTaken
          /\ pc # "exited"
          /\ pc = "update_time" => pc' = "dispatch"
          /\ pc = "dispatch" => pc' \in {"dispatch", "maintain"}
          /\ pc = "maintain" => pc' = "post_frame"]_vars

\* C23 witness: the loop has ended on a Quit taken after the maintain of a
\* frame in the middle of the song, with an entity still in the world.
C23_Witness ==
    /\ pc = "exited"
    /\ exit
    /\ lazy = <<>>
    /\ DOMAIN store # {}
    /\ done = Systems

----------------------------------------------------------------------------
(* Systems with no dependency path between them (MixedMap).                *)

InputStep == "input-system" \notin done /\ "input-system" \in done'
CircleLifetimeStep ==
    "circle-lifetime-system" \notin done /\ "circle-lifetime-system" \in done'

\* CircleLifetimeSystem::run on the world w = [store, lazy, events, fatal]
circle_lifetime(w) ==
    [w EXCEPT !.lazy = append_misses(@, SortedSeq(auto_missed(w.store)))]

\* the world as HitSystem has left it
AfterHit ==
    [store |-> store, lazy |-> lazy, events |-> game_events, fatal |-> ""]

\* the two orders in which the dispatcher may run the pair
CircleThenSlider ==
    LET w == circle_lifetime(AfterHit)
    IN  slider_lifetime(SortedSeq(Sliders(w.store)), w)
SliderThenCircle ==
    circle_lifetime(slider_lifetime(SortedSeq(Sliders(store)), AfterHit))

\* the rest of the frame on w: LifetimeSystem, then world.maintain()
AfterMaintain(w) ==
    apply_lazy(append_deletes(w.lazy, SortedSeq(flagged(w.store, w.lazy))),
               [store |-> progress_lifetime(w.store, time), alloc |-> alloc,
                fatal |-> ""])

\* every system given to the DispatcherBuilder with a name
NamedSystems == Systems \cup {"trail-system"}

NamedDeps(sys) == IF sys = "trail-system" THEN {"input-system"} ELSE Deps(sys)

RECURSIVE Ancestors(_)
\* the systems that are certain to have run before sys
Ancestors(sys) ==
    NamedDeps(sys) \cup UNION {Ancestors(d) : d \in NamedDeps(sys)}

Unordered(a, b) == a # b /\ a \notin Ancestors(b) /\ b \notin Ancestors(a)

\* SystemData: Write<..> and WriteStorage<..>
Writes(sys) ==
    CASE sys = "input-system" -> {"GameCursor", "GameInputState"}
      [] sys = "trail-system" -> {"Trail", "TrailTimer"}
      [] sys = "object-spawner-system" -> {}
      [] sys = "hit-system" -> {"GameEvents", "Slider", "CircleHitRating"}
      [] sys = "circle-lifetime-system" -> {}
      [] sys = "slider-lifetime-system" -> {"Slider", "GamePos", "GameEvents"}
      [] sys = "lifetime-system" -> {"Lifetime", "DespawnObject"}
      [] sys = "scoring-system" -> {"Hp", "Combo", "Score"}

\* SystemData: Read<..>, ReadStorage<..> and Entities
Reads(sys) ==
    CASE sys = "input-system" -> {"Vec<EventLoopMsg>", "Time"}
      [] sys = "trail-system" -> {"Time", "GameCursor"}
      [] sys = "object-spawner-system" -> {"Time", "Entities", "LazyUpdate"}
      [] sys = "hit-system" ->
            {"Time", "GameArea", "GameInputState", "GameCursor", "Circle",
             "Lifetime", "GamePos", "LazyUpdate", "Entities"}
      [] sys = "circle-lifetime-system" ->
            {"Lifetime", "Circle", "Entities", "LazyUpdate"}
      [] sys = "slider-lifetime-system" ->
            {"Lifetime", "Entities", "LazyUpdate", "Time"}
      [] sys = "lifetime-system" -> {"Time", "Entities", "LazyUpdate"}
      [] sys = "scoring-system" -> {"DespawnObject"}

\* C24: systems with no dependency path between them touch different
\* state: what one of them declares to write the other declares neither to
\* read nor to write.  InputSystem changes the input state and the cursor only, from the
\* messages and its own state; ObjectSpawnerSystem changes its cursor, the
\* allocator and the queue only; CircleLifetimeSystem changes the queue
\* only; SliderLifetimeSystem changes the sliders, their positions, the game
\* events and the queue only.  Whichever of CircleLifetimeSystem and
\* SliderLifetimeSystem runs first, components and events are the same after
\* both and the world is the same after the frame's maintain.
C24_UnorderedSystemsCommute ==
    /\ [](\A a, b \in NamedSystems :
            Unordered(a, b) =>
                Writes(a) \cap (Reads(b) \cup Writes(b)) = {})
    /\ [](pc = "dispatch" /\ done = {"input-system", "object-spawner-system",
                                     "hit-system"}
          => /\ CircleThenSlider.store = SliderThenCircle.store
             /\ CircleThenSlider.events = SliderThenCircle.events
             /\ CircleThenSlider.fatal = SliderThenCircle.fatal
             /\ AfterMaintain(CircleThenSlider) = AfterMaintain(SliderThenCircle))
    /\ [][/\ InputStep =>
               /\ UNCHANGED <<beatmap, spawner_index, time, store, alloc, lazy,
                              event_loop_msgs, game_area, hp, combo, score,
                              game_events, pc, exit>>
               /\ [input_state |-> input_state', cursor |-> cursor'] =
                    apply_msgs(event_loop_msgs,
                               [input_state |-> clear_frame(input_state),
                                cursor |-> cursor])
          /\ SpawnerStep =>
               UNCHANGED <<beatmap, time, store, event_loop_msgs, input_state,
                           cursor, game_area, hp, combo, score, game_events,
                           exit>>
          /\ CircleLifetimeStep =>
               /\ UNCHANGED <<beatmap, spawner_index, time, store, alloc,
                              event_loop_msgs, input_state, cursor, game_area,
                              hp, combo, score, game_events, pc, exit>>
               /\ \A k \in (Len(lazy) + 1)..Len(lazy') :
                     lazy'[k].id \in Circles(store)
          /\ SliderLifetimeStep =>
               /\ UNCHANGED <<beatmap, spawner_index, time, alloc,
                              event_loop_msgs, input_state, cursor, game_area,
                              hp, combo, score, pc, exit>>
               /\ DOMAIN store' = DOMAIN store
               /\ \A id \in DOMAIN store :
                     /\ store'[id].remaining = store[id].remaining
                     /\ store'[id].despawn = store[id].despawn
                     /\ store'[id].rating = store[id].rating
                     /\ id \in Circles(store) => store'[id] = store[id]
               /\ \A k \in (Len(lazy) + 1)..Len(lazy') :
                     lazy'[k].id \in Sliders(store)]_vars

\* C24 witness: CircleLifetimeSystem and SliderLifetimeSystem are both about
\* to run in a frame in which the circle is auto-missed and the slider
\* expires, and the two orders leave the queue in different orders.
C24_Witness ==
    /\ pc = "dispatch"
    /\ done = {"input-system", "object-spawner-system", "hit-system"}
    /\ auto_missed(store) # {}
    /\ Unordered("circle-lifetime-system", "slider-lifetime-system")
    /\ CircleThenSlider.lazy # SliderThenCircle.lazy
    /\ Len(CircleThenSlider.lazy) = Len(lazy) + 2

----------------------------------------------------------------------------
(* Hp, Combo and Score over a run of markers from the initial state.       *)

MaxScored == 12      \* markers scored in one run

\* Hp::default(), Combo::default(), Score::default()
InitHealth ==
    /\ InitWorld({CircleMap})
    /\ call = [op |-> "scoring", n |-> 0, last |-> NoMarker, prev_hp |-> hp,
               s |-> [hp |-> hp, combo |-> combo, score |-> score,
                      fatal |-> ""]]

\* the next marker met by ScoringSystem::run, in this frame or a later one
ScoreNextMarker ==
    /\ call.op = "scoring"
    /\ call.n < MaxScored
    /\ \E reason \in ReplayReasons :
          call' = [call EXCEPT !.n = @ + 1,
                              !.last = reason,
                              !.prev_hp = call.s.hp,
                              !.s = score_marker(reason, call.s)]
    /\ UNCHANGED world

SpecHealth == InitHealth /\ [][ScoreNextMarker]_vars

\* C25: after any run of markers scored from the initial state the health
\* is within [0, 1]: a drain at 0 leaves it at 0 and a fill at 1 leaves it
\* at 1.
C25_HealthInRange ==
    call.op = "scoring" =>
        /\ 0 <= call.s.hp
        /\ call.s.hp <= HP_FULL
        /\ (call.prev_hp = 0 /\ call.last = CircleHit("MISS"))
              => call.s.hp = 0
        /\ (call.prev_hp = HP_FULL /\ call.last = CircleHit("GREAT"))
              => call.s.hp = HP_FULL

\* C25 witness: a MISS has been scored with the health already at 0.
C25_Witness ==
    /\ call.op = "scoring"
    /\ call.n > 0
    /\ call.prev_hp = 0
    /\ call.last = CircleHit("MISS")
    /\ call.s.hp = 0

----------------------------------------------------------------------------
(* The order of slider motion and the lifetime decrement (SliderMap).      *)

\* the scheduled time of the entity's hit object less the elapsed time of
\* the running frame: its remaining with this frame's delta taken off
RemainingThisFrame(e) ==
    beatmap.hit_objects[e.src].time_offset_in_secs - time.secs_since_start

\* C26 (as claimed): the remaining that SliderLifetimeSystem reads for a
\* slider in a frame already has that frame's delta taken off.
C26_MotionAfterDecrement ==
    [][SliderLifetimeStep =>
          \A id \in Sliders(store) :
              store[id].remaining = RemainingThisFrame(store[id])]_vars

\* C26: the frame the code makes: SliderLifetimeSystem has run before
\* LifetimeSystem on a slider whose remaining is still that of the frame
\* before, one delta above the remaining of this frame, and has computed
\* the progress from it.
C26_MotionBeforeDecrement ==
    /\ pc = "dispatch"
    /\ "slider-lifetime-system" \in done
    /\ "lifetime-system" \notin done
    /\ time.delta_seconds > 0
    /\ \E id \in Sliders(store) :
          /\ store[id].remaining < 0
          /\ store[id].remaining =
                RemainingThisFrame(store[id]) + time.delta_seconds
          /\ store[id].slider.progress = Abs(store[id].remaining)

----------------------------------------------------------------------------
(* The order of a frame.                                                   *)

LifetimeStep == "lifetime-system" \notin done /\ "lifetime-system" \in done'
ScoringStep == "scoring-system" \notin done /\ "scoring-system" \in done'

\* C27: the clock changes only in the step that opens the frame, before any
\* system has run; HitSystem runs when ObjectSpawnerSystem and InputSystem
\* have run and LifetimeSystem has not; ScoringSystem runs when
\* LifetimeSystem has run; maintain runs when every system has run.
C27_FrameOrder ==
    [][/\ time' # time =>
            (pc = "update_time" /\ pc' = "dispatch" /\ done' = {})
       /\ done' # done => (pc = "update_time" \/ pc = "dispatch")
       /\ HitStep =>
            /\ pc = "dispatch"
            /\ {"object-spawner-system", "input-system"} \subseteq done
            /\ "lifetime-system" \notin done
       /\ LifetimeStep => (pc = "dispatch" /\ "hit-system" \in done)
       /\ ScoringStep => (pc = "dispatch" /\ "lifetime-system" \in done)
       /\ MaintainStep => "scoring-system" \in done]_vars

\* C27 witness: in a frame with a key pressed, HitSystem has run after
\* InputSystem and the spawner and has requested a marker, and the lifetime
\* systems have yet to run.
C27_Witness ==
    /\ pc = "dispatch"
    /\ done = {"input-system", "object-spawner-system", "hit-system"}
    /\ BoundKeyActive
    /\ time.delta_seconds > 0
    /\ \E k \in 1..Len(lazy) : lazy[k].op = "insert"

----------------------------------------------------------------------------
(* The range of a slider's progress and of its completed share (SliderMap). *)

\* C28 (as claimed): the progress of a slider is within [0, 1] in every
\* state: its numerator is never above the duration.
C28_ProgressInRange ==
    \A id \in Sliders(store) :
        /\ 0 <= store[id].slider.progress
        /\ store[id].slider.progress <= store[id].slider.duration_in_secs

\* C28: the state the code reaches: an expired slider that still exists in
\* the frame after the one that requested its marker has its progress
\* computed again, from a remaining beyond the duration.
C28_ProgressBeyondOne ==
    /\ pc = "dispatch"
    /\ "slider-lifetime-system" \in done
    /\ \E id \in Sliders(store) :
          /\ store[id].despawn # NoMarker
          /\ store[id].slider.progress > store[id].slider.duration_in_secs
          /\ store[id].slider.progress = Abs(store[id].remaining)

\* C29 (as claimed): the share carried by FINISHED is within [0, 1] and the
\* seconds carried by DRAGGING are never above the slider's duration.
C29_PercentInRange ==
    \A id \in Sliders(store) :
        LET sl == store[id].slider
        IN  /\ sl.state.tag = "DRAGGING" =>
                  (0 <= sl.state.secs /\ sl.state.secs <= sl.duration_in_secs)
            /\ sl.state.tag = "FINISHED" =>
                  (0 <= sl.state.pct.num /\ sl.state.pct.num <= sl.state.pct.den)

\* C29: the state the code reaches: a slider grabbed before its start, the
\* hold kept up to the expiry, is despawned as FINISHED with a share
\* above 1.
C29_PercentBeyondOne ==
    \E id \in Sliders(store) :
        /\ hist[store[id].src].held_all
        /\ store[id].despawn # NoMarker
        /\ store[id].despawn.reason.kind = "SliderEnd"
        /\ store[id].despawn.reason.state.tag = "FINISHED"
        /\ store[id].despawn.reason.state.pct.num >
              store[id].despawn.reason.state.pct.den

----------------------------------------------------------------------------
(* HitSystem::run on one slider drawn in any state, at any side of the     *)
(* judging window, with and without a held key and cursor contact.         *)

\* the values of Lifetime.remaining drawn: both edges of the hit window and
\* their neighbours, and the nominal start
HoldRemainings ==
    {HIT_WINDOW + 1, HIT_WINDOW, HIT_WINDOW - 1, 0,
     0 - HIT_WINDOW, 0 - HIT_WINDOW - 1}

\* the cursor on the slider's start position, or far from it
HoldCursor(contact) ==
    IF contact THEN [window_x |-> 100, window_y |-> 100]
    ELSE [window_x |-> 500, window_y |-> 500]

\* the one slider entity the run is given
HoldEntity(c) ==
    [src |-> 1, kind |-> "slider",
     pos |-> [x |-> 100, y |-> 100, den |-> 1],
     remaining |-> c.remaining, rating |-> "MISS",
     slider |-> [duration_in_secs |-> c.d, progress |-> c.progress,
                 curve |-> [type |-> "Linear", start |-> <<100, 100>>,
                            end |-> <<110, 110>>],
                 state |-> c.state],
     despawn |-> NoMarker]

InitHold ==
    /\ InitWorld({SliderMap})
    /\ \E st \in SliderStates, r \in HoldRemainings, d \in 1..MaxSecs,
          hs \in SUBSET Keys, contact \in BOOLEAN, dt \in 0..MaxDelta :
          \E pr \in 0..(d + 1) :
            call = [op |-> "HitSystem::run", state |-> st, remaining |-> r,
                    d |-> d, progress |-> pr, hold_set |-> hs,
                    contact |-> contact, delta |-> dt,
                    returned |-> FALSE, result |-> NoValue]

\* HitSystem::run over a world that holds the slider alone
HitSystemCall ==
    /\ call.op = "HitSystem::run"
    /\ ~call.returned
    /\ LET r == hit_system((0 :> HoldEntity(call)), <<>>, <<>>,
                           [quitting |-> FALSE, active_set |-> {},
                            hold_set |-> call.hold_set],
                           set_game_area_matrix(ViewMatrix),
                           HoldCursor(call.contact),
                           [delta_seconds |-> call.delta, secs_since_start |-> 40])
       IN  call' = [call EXCEPT
                      !.returned = TRUE,
                      !.result = [state |-> r.store[0].slider.state,
                                  events |-> r.events, fatal |-> r.fatal]]
    /\ UNCHANGED world

SpecHold == InitHold /\ [][HitSystemCall]_vars

\* C30: HitSystem on a slider that is DRAGGING(v) inside its judging window
\* (remaining below the upper edge of the hit window, the past included):
\* without a held bound key, without the cursor inside the hit radius, or
\* with progress above 1.0, the slider is FINISHED(v / duration) when the run
\* returns; otherwise it is DRAGGING(v + delta).  A slider outside the
\* judging window, whatever its state, comes back as it went in, with no
\* event emitted.
C30_DraggingStep ==
    (call.op = "HitSystem::run" /\ call.returned) =>
        LET in_zone == 0 - HIT_WINDOW <= call.remaining
                         /\ call.remaining < HIT_WINDOW
            judged == in_zone \/ call.remaining < 0
            held == "G" \in call.hold_set \/ "H" \in call.hold_set
        IN  /\ call.result.fatal = ""
            /\ ~judged =>
                  (call.result.state = call.state /\ call.result.events = <<>>)
            /\ (judged /\ call.state.tag = "DRAGGING") =>
                  IF ~held \/ ~call.contact \/ call.progress > call.d
                  THEN /\ call.result.state = FINISHED(call.state.secs, call.d)
                       /\ call.result.events = <<"SliderStop">>
                  ELSE /\ call.result.state =
                             DRAGGING(call.state.secs + call.delta)
                       /\ call.result.events = <<>>

\* C30: a slider taken past its start as DRAGGING, the key still held, the
\* cursor off the slider: the run returned it FINISHED.
C30_Witness ==
    /\ call.op = "HitSystem::run"
    /\ call.returned
    /\ call.state.tag = "DRAGGING"
    /\ call.remaining < 0
    /\ call.hold_set # {}
    /\ ~call.contact
    /\ call.progress <= call.d
    /\ call.result.state.tag = "FINISHED"

----------------------------------------------------------------------------
(* Release and re-grab of a slider with the seconds carried as binary      *)
(* floating-point numbers: f64 has 53 significant bits, the numbers here   *)
(* have MantBits, rounded to nearest, ties to even, as f64 division and    *)
(* multiplication are.  A number is m * 2^e with m of exactly MantBits     *)
(* bits, or zero.                                                          *)

MantBits == 4        \* significant bits of the floating-point numbers
MaxExp == 2          \* exponents drawn run over -MaxExp..0

RECURSIVE Pow2(_)
Pow2(n) == IF n <= 0 THEN 1 ELSE 2 * Pow2(n - 1)

RECURSIVE BitLen(_)
BitLen(n) == IF n = 0 THEN 0 ELSE 1 + BitLen(n \div 2)

FZero == [m |-> 0, e |-> 0]
FOne == [m |-> Pow2(MantBits - 1), e |-> 1 - MantBits]

\* the positive numbers drawn, between 2^(-MaxExp - 1) and 1
Floats ==
    {[m |-> m, e |-> e - MantBits] :
        m \in Pow2(MantBits - 1)..(Pow2(MantBits) - 1), e \in (0 - MaxExp)..0}
    \cup {FOne}

\* variant: the bits beyond the mantissa are cut off
fl_chop(n, sticky, e) ==
    LET s == BitLen(n) - MantBits
    IN  IF s <= 0 THEN [m |-> n * Pow2(0 - s), e |-> e + s]
        ELSE [m |-> n \div Pow2(s), e |-> e + s]

\* the number nearest to n * 2^e (plus a little, when sticky), n > 0
fl_round(n, sticky, e) ==
    LET s == BitLen(n) - MantBits
    IN  IF s <= 0 THEN [m |-> n * Pow2(0 - s), e |-> e + s]
        ELSE LET m0 == n \div Pow2(s)
                 rem == n % Pow2(s)
                 half == Pow2(s - 1)
                 up == rem > half \/ (rem = half /\ (sticky \/ m0 % 2 = 1))
                 m1 == IF up THEN m0 + 1 ELSE m0
             IN  IF m1 = Pow2(MantBits)
                 THEN [m |-> Pow2(MantBits - 1), e |-> e + s + 1]
                 ELSE [m |-> m1, e |-> e + s]

\* a / b in f64 arithmetic, b > 0
fdiv(a, b) ==
    IF a.m = 0 THEN FZero
    ELSE LET n == a.m * Pow2(MantBits + 1)
         IN  fl_round(n \div b.m, n % b.m # 0, a.e - b.e - (MantBits + 1))

\* a * b in f64 arithmetic
fmul(a, b) ==
    IF a.m = 0 \/ b.m = 0 THEN FZero
    ELSE fl_round(a.m * b.m, FALSE, a.e + b.e)

\* a < b
fless(a, b) ==
    LET mn == IF a.e < b.e THEN a.e ELSE b.e
    IN  a.m * Pow2(a.e - mn) < b.m * Pow2(b.e - mn)

\* the DRAGGING arm of process_slider_hold when the hold is lost
release_f64(state, duration_in_secs, is_holding, hit) ==
    IF state.tag = "DRAGGING" /\ ~(is_holding /\ hit)
    THEN [tag |-> "FINISHED", pct |-> fdiv(state.secs, duration_in_secs)]
    ELSE state

\* the FINISHED arm of process_slider_hold
regrab_f64(state, duration_in_secs, progress, is_holding, hit) ==
    IF state.tag = "FINISHED" /\ fless(progress, FOne) /\ is_holding /\ hit
    THEN [tag |-> "DRAGGING", secs |-> fmul(state.pct, duration_in_secs)]
    ELSE state

InitRegrab ==
    /\ InitWorld({SliderMap})
    /\ \E v \in Floats \cup {FZero}, d \in Floats :
          call = [op |-> "regrab", v |-> v, d |-> d, stage |-> 0,
                  state |-> [tag |-> "DRAGGING", secs |-> v],
                  progress |-> FZero, is_holding |-> FALSE, hit |-> FALSE]

\* a frame of HitSystem in which the key is up or the cursor off the slider
ReleaseCall ==
    /\ call.op = "regrab"
    /\ call.stage = 0
    /\ \E is_holding \in BOOLEAN, hit \in BOOLEAN :
          /\ ~(is_holding /\ hit)
          /\ call' = [call EXCEPT
                        !.stage = 1,
                        !.state = release_f64(call.state, call.d, is_holding, hit)]
    /\ UNCHANGED world

\* the next frame of HitSystem, with any input and any progress
RegrabCall ==
    /\ call.op = "regrab"
    /\ call.stage = 1
    /\ \E is_holding \in BOOLEAN, hit \in BOOLEAN,
          pr \in {FZero, [m |-> Pow2(MantBits) - 1, e |-> 0 - MantBits], FOne} :
          call' = [call EXCEPT
                     !.stage = 2,
                     !.progress = pr, !.is_holding = is_holding, !.hit = hit,
                     !.state = regrab_f64(call.state, call.d, pr, is_holding, hit)]
    /\ UNCHANGED world

SpecRegrab == InitRegrab /\ [][ReleaseCall \/ RegrabCall]_vars

\* |a - b| <= k * 2^(b.e): a is within k units in the last place of b
WithinUlps(a, b, k) ==
    LET mn == IF a.e < b.e THEN a.e ELSE b.e
    IN  Abs(a.m * Pow2(a.e - mn) - b.m * Pow2(b.e - mn)) <= k * Pow2(b.e - mn)

\* C31 (as claimed): a slider released and grabbed again with no dragging in
\* between resumes with exactly the seconds it was released with.
C31_RegrabExact ==
    (call.op = "regrab" /\ call.stage = 2 /\ call.state.tag = "DRAGGING") =>
        call.state.secs = call.v

\* C31: a FINISHED slider goes back to DRAGGING exactly when progress is below
\* 1.0 and a bound key is held with the cursor inside the radius, and stays
\* FINISHED with the same share otherwise.  It resumes with percent x duration,
\* which is the seconds it was released with up to the rounding of the
\* division and the multiplication: within one unit in the last place, and
\* exactly the same when the duration is a power of two.
C31_RegrabWithinRounding ==
    (call.op = "regrab" /\ call.stage = 2) =>
        IF call.progress.m * Pow2(call.progress.e + MantBits) < Pow2(MantBits)
           /\ call.is_holding /\ call.hit
        THEN /\ call.state.tag = "DRAGGING"
             /\ IF call.v.m = 0 THEN call.state.secs.m = 0
                ELSE /\ call.state.secs.m > 0
                     /\ WithinUlps(call.state.secs, call.v, 1)
             /\ call.d.m = Pow2(MantBits - 1) => call.state.secs = call.v
        ELSE call.state.tag = "FINISHED"

\* C31: a re-grab that resumed with other seconds than the release left.
C31_Witness ==
    /\ call.op = "regrab"
    /\ call.stage = 2
    /\ call.state.tag = "DRAGGING"
    /\ call.state.secs # call.v
    /\ WithinUlps(call.state.secs, call.v, 1)

----------------------------------------------------------------------------
(* The inbound list at the end of the run.                                 *)

\* C32 (as claimed): every message taken from the channel is presented to
\* InputSystem in the next dispatched frame, so when the loop has halted no
\* taken message is left in the inbound list unpresented.
C32_EveryMessagePresented ==
    pc = "exited" => event_loop_msgs = <<>>

\* C32: the state the code reaches: the batch that carried Quit was taken
\* from the channel after the list was cleared, the loop halted, and
\* InputSystem never saw the batch: quitting was never set.
C32_QuitNeverPresented ==
    /\ pc = "exited"
    /\ HasQuit(event_loop_msgs)
    /\ ~input_state.quitting

----------------------------------------------------------------------------
(* Two overlapping circles and two keys.                                   *)

SpecOverlap == InitWith({OverlapMap}) /\ [][Next]_vars

\* the circles a step has requested a marker for
Requested(q, q2) ==
    {q2[k].id : k \in {j \in (Len(q) + 1)..Len(q2) : q2[j].op = "insert"}}

\* C33: HitSystem requests hit markers for at most one circle per frame,
\* however many keys are newly active: with both keys active and circles in
\* the hit zone under the cursor, both scans take the first of them in join
\* order, which gets two requests with the same rating, the second scan taking
\* it again although its marker is pending; every other circle gets none.
C33_OneCirclePerFrame ==
    [][HitStep =>
        /\ Cardinality(Requested(lazy, lazy')) <= 1
        /\ LET matching ==
                 {id \in Circles(store) :
                    /\ 0 - HIT_WINDOW <= store[id].remaining
                    /\ store[id].remaining < HIT_WINDOW
                    /\ circle_hit_check(game_area, cursor, store[id])}
           IN  ({"G", "H"} \subseteq input_state.active_set /\ matching # {}) =>
                  \E id \in matching :
                     /\ \A other \in matching : id <= other
                     /\ Len(lazy') = Len(lazy) + 2
                     /\ lazy'[Len(lazy) + 1].op = "insert"
                     /\ lazy'[Len(lazy) + 1].id = id
                     /\ lazy'[Len(lazy) + 2] = lazy'[Len(lazy) + 1]]_vars

\* C33 witness: both keys were newly active with two circles in the hit zone
\* under the cursor; HitSystem has run, the first circle has two requests
\* waiting and the second has none.
C33_Witness ==
    /\ pc = "dispatch"
    /\ "hit-system" \in done
    /\ "circle-lifetime-system" \notin done
    /\ {"G", "H"} \subseteq input_state.active_set
    /\ \E id, other \in Circles(store) :
          /\ id < other
          /\ is_in_hit_zone(store[other].remaining)
          /\ circle_hit_check(game_area, cursor, store[other])
          /\ InsertsFor(lazy, id) = 2
          /\ InsertsFor(lazy, other) = 0

----------------------------------------------------------------------------
(* A hit in the frame of the auto-miss.                                    *)

\* the queue holds a hit request for entity id and, behind it, a MISS
HitThenMiss(q, id) ==
    \E k, l \in 1..Len(q) :
        /\ k < l
        /\ q[k].op = "insert" /\ q[k].id = id
        /\ q[k].marker.reason \in {CircleHit("GOOD"), CircleHit("GREAT")}
        /\ q[l] = InsertOp(id, CircleHit("MISS"))

\* C34: a circle without a marker that is hit in the frame in which HitSystem
\* and the auto-miss rule both read remaining = -0.200: the queue holds the
\* hit request and the MISS behind it, maintain attaches CircleHit(MISS), and
\* the rating component stays GOOD; a circle whose first hit fell into such
\* a frame is scored with CircleHit(MISS) and with nothing else.
C34_MissOverwritesHit ==
    /\ [](\A i \in DOMAIN hist :
            LET first_hit_at_edge ==
                  /\ beatmap.hit_objects[i].object_params.type = "HitCircle"
                  /\ hist[i].hit_reqs >= 1
                  /\ hist[i].hit_at - hist[i].hit_delta =
                        beatmap.hit_objects[i].time_offset_in_secs + HIT_WINDOW
            IN  first_hit_at_edge =>
                  /\ (hist[i].scored >= 1 => hist[i].scored_as = CircleHit("MISS"))
                  /\ \A id \in Circles(store) :
                        store[id].src = i =>
                           /\ store[id].rating = "GOOD"
                           /\ (store[id].despawn # NoMarker =>
                                 store[id].despawn.reason = CircleHit("MISS")))
    /\ [][MaintainStep =>
            \A id \in Circles(store) :
                (HitThenMiss(lazy, id) /\ store[id].despawn = NoMarker) =>
                    /\ id \in DOMAIN store'
                    /\ store'[id].despawn.reason = CircleHit("MISS")
                    /\ store'[id].rating = "GOOD"]_vars

\* C34 witness: a circle first hit in the frame that read remaining = -0.200
\* has been scored as a miss while its rating says GOOD.
C34_Witness ==
    \E id \in Circles(store) :
        LET i == store[id].src
        IN  /\ hist[i].hit_reqs >= 1
            /\ hist[i].hit_at - hist[i].hit_delta =
                  beatmap.hit_objects[i].time_offset_in_secs + HIT_WINDOW
            /\ hist[i].miss_frames = 2
            /\ hist[i].scored = 1
            /\ hist[i].scored_as = CircleHit("MISS")
            /\ store[id].rating = "GOOD"

----------------------------------------------------------------------------
(* Liveness: the frame loop keeps going and the clock keeps advancing.     *)

\* a frame whose measured elapsed time is positive
PositiveFrame == UpdateTime /\ time'.delta_seconds > 0

\* every step of the frame loop but the run of HitSystem
OtherSteps ==
    \/ UpdateTime
    \/ InputSystemRun
    \/ ObjectSpawnerSystemRun
    \/ CircleLifetimeSystemRun
    \/ SliderLifetimeSystemRun
    \/ LifetimeSystemRun
    \/ ScoringSystemRun
    \/ RenderingSystemRun
    \/ Maintain
    \/ PostFrame

\* The loop and the dispatcher run whatever can run, and Instant::elapsed()
\* keeps growing.  HitSystemRun is enabled exactly when CanRun("hit-system"),
\* so its weak fairness is written out with that predicate.
SpecLive ==
    /\ InitWith(LiveMaps)
    /\ [][Next]_vars
    /\ WF_vars(OtherSteps)
    /\ ([]<>~CanRun("hit-system") \/ []<><<HitStep>>_vars)
    /\ SF_vars(PositiveFrame)

\* the frame loop has ended: Quit was taken, or a system panicked
Halted == pc \notin {"update_time", "dispatch", "maintain", "post_frame"}

\* C35: as long as the loop is not ended by Quit or a panic, every circle and
\* every slider that was spawned gets a DespawnObject marker, which is scored,
\* and is deleted afterwards, whatever the input batches are.
C35_EverySpawnedEntityDespawns ==
    \A i \in 1..1 :
        /\ (hist[i].spawned ~> (Halted \/ hist[i].scored >= 1))
        /\ (hist[i].spawned ~> (Halted \/ hist[i].deleted))

\* C35 witness: a slider was spawned, held for a while, scored and deleted
\* with the loop still running.
C35_Witness ==
    /\ ~Halted
    /\ beatmap = LiveSliderMap
    /\ hist[1].spawned
    /\ hist[1].scored >= 1
    /\ hist[1].deleted
    /\ hist[1].scored_as.kind = "SliderEnd"
    /\ hist[1].scored_as.state.tag = "FINISHED"
    /\ hist[1].scored_as.state.pct.num > 0

----------------------------------------------------------------------------
(* An entity that is neither a circle nor a slider.                        *)

SpecBare == InitWith({BareMap}) /\ [][Next]_vars

\* the entities spawned from hit object i
EntitiesOf(i) == {id \in DOMAIN store : store[id].src = i}

\* C36: the entity spawned from an object without params has neither Circle
\* nor Slider; no system ever requests a marker for it or its deletion, none
\* is attached, it is never scored and never deleted; once created it stays
\* in the store in every later state, and every LifetimeSystem run takes the
\* frame's delta off its remaining, below the hit window as anywhere else.
C36_BareEntityNeverDespawns ==
    /\ [](\A i \in DOMAIN hist :
            (beatmap.hit_objects[i].object_params.type = "None"
             /\ hist[i].spawned) =>
               /\ ~hist[i].deleted
               /\ hist[i].scored = 0
               /\ hist[i].hit_reqs = 0
               /\ hist[i].miss_frames = 0
               /\ \A k \in 1..Len(lazy) : lazy[k].op \in {"insert", "delete"} =>
                     lazy[k].id \notin EntitiesOf(i)
               /\ \A id \in EntitiesOf(i) :
                     /\ store[id].kind = "none"
                     /\ store[id].slider = NoSlider
                     /\ store[id].despawn = NoMarker)
    /\ [][\A id \in DOMAIN store :
            store[id].kind = "none" =>
               /\ id \in DOMAIN store'
               /\ store'[id].remaining =
                     IF LifetimeStep
                     THEN store[id].remaining - time.delta_seconds
                     ELSE store[id].remaining]_vars

\* C36 witness: the entity is in the store without a marker, its remaining
\* well below the lower end of the hit window, after keys were pressed on it.
C36_Witness ==
    \E id \in DOMAIN store :
        /\ store[id].kind = "none"
        /\ store[id].despawn = NoMarker
        /\ store[id].remaining < 0 - HIT_WINDOW - 2
        /\ "G" \in input_state.hold_set
        /\ circle_hit_check(game_area, cursor, store[id])

----------------------------------------------------------------------------
(* main.rs and game_thread.rs: the two threads and their two channels at   *)
(* shutdown.  `call` holds                                                 *)
(*   ev_chan     the messages sent to the game thread and not yet taken    *)
(*   gt_chan     the messages sent to the event thread and not yet taken   *)
(*   receiver    the game thread still owns event_loop_msg_rec             *)
(*   ev          the event thread: "poll" before game_thread_receiver      *)
(*               .try_iter(), "match" before `match event`, or its end     *)
(*   event       the window event the closure was called with              *)
(*   game_thread_exited   the closure's flag                               *)
(*   gt          the game thread: "loop", "notify", "return", "returned"   *)

MaxInFlight == 2     \* messages waiting in ev_chan

WindowEvents == {"KeyboardInput", "CloseRequested", "Unused"}

InitShutdown ==
    /\ InitWorld({SliderMap})
    /\ call = [op |-> "shutdown", ev_chan |-> <<>>, gt_chan |-> <<>>,
               receiver |-> TRUE, ev |-> "poll", event |-> "Unused",
               game_thread_exited |-> FALSE, gt |-> "loop", skipped |-> 0]

\* the closure is called with an event and drains game_thread_receiver
EventPoll ==
    /\ call.op = "shutdown"
    /\ call.ev = "poll"
    /\ \E e \in WindowEvents :
          call' = [call EXCEPT
                     !.ev = "match", !.event = e,
                     !.gt_chan = <<>>,
                     !.game_thread_exited = @ \/ call.gt_chan # <<>>]
    /\ UNCHANGED world

\* `match event`: skip when game_thread_exited, else send(..).unwrap();
\* after ControlFlow::Exit the closure may be called again or not
EventMatch ==
    /\ call.op = "shutdown"
    /\ call.ev = "match"
    /\ IF call.event = "Unused"
       THEN \E nxt \in IF call.game_thread_exited THEN {"poll", "exited"}
                       ELSE {"poll"} :
               call' = [call EXCEPT !.ev = nxt]
       ELSE IF call.game_thread_exited
       THEN \E nxt \in {"poll", "exited"} :
               call' = [call EXCEPT !.ev = nxt,
                                    !.skipped = IF @ < 1 THEN @ + 1 ELSE @]
       ELSE IF ~call.receiver
       THEN call' = [call EXCEPT !.ev = "panic: SendError"]
       ELSE /\ Len(call.ev_chan) < MaxInFlight
            /\ call' = [call EXCEPT
                          !.ev = "poll",
                          !.ev_chan = Append(@,
                              IF call.event = "CloseRequested" THEN Quit
                              ELSE KeyPressed("G"))]
    /\ UNCHANGED world

\* one pass of the frame loop: try_iter() takes what is waiting, Quit sets
\* exit, and `if exit { break }` leaves the loop
GameLoop ==
    /\ call.op = "shutdown"
    /\ call.gt = "loop"
    /\ call' = [call EXCEPT
                  !.ev_chan = <<>>,
                  !.gt = IF HasQuit(call.ev_chan) THEN "notify" ELSE "loop"]
    /\ UNCHANGED world

\* game_thread_sender.send(GameThreadMsg::Quit).unwrap()
GameNotify ==
    /\ call.op = "shutdown"
    /\ call.gt = "notify"
    /\ call' = [call EXCEPT !.gt = "return", !.gt_chan = Append(@, "Quit")]
    /\ UNCHANGED world

\* game_thread returns: its parameter event_loop_msg_rec is dropped
GameReturn ==
    /\ call.op = "shutdown"
    /\ call.gt = "return"
    /\ call' = [call EXCEPT !.gt = "returned", !.receiver = FALSE]
    /\ UNCHANGED world

SpecShutdown ==
    InitShutdown
    /\ [][EventPoll \/ EventMatch \/ GameLoop \/ GameNotify \/ GameReturn]_vars

\* C37 (as claimed): the event thread never sends on the channel after the
\* game thread has dropped its receiver, so no send(..).unwrap() fails.
C37_SendNeverFails ==
    call.op = "shutdown" => call.ev # "panic: SendError"

\* C37: the state the code reaches: the closure polled before the game
\* thread's Quit was sent, the game thread then sent it and returned, and the
\* closure's send found the receiver gone; the Quit notification is still
\* waiting unread.
C37_SendAfterReceiverDropped ==
    /\ call.op = "shutdown"
    /\ call.ev = "panic: SendError"
    /\ ~call.game_thread_exited
    /\ call.gt = "returned"
    /\ call.gt_chan = <<"Quit">>

----------------------------------------------------------------------------
(* Slider hold events over a slider's life.                                *)

\* the SliderStart / SliderStop events among the events s
SliderEventsIn(s) ==
    SelectSeq(s, LAMBDA e : e \in {"SliderStart", "SliderStop"})

\* the slider entities of the storage st whose state is DRAGGING
Dragging(st) ==
    {id \in Sliders(st) : st[id].slider.state.tag = "DRAGGING"}

\* C38: the SliderStart and SliderStop events of a slider alternate,
\* beginning with SliderStart, and every SliderStart is followed by a
\* SliderStop before the slider is deleted.  A step emits at most one slider
\* event; SliderStart is emitted only when no hold is open (the slider is not
\* DRAGGING) and opens one, SliderStop only when a hold is open and closes
\* it, a step without a slider event leaves the hold as it was, a slider is
\* created with no hold open and is never deleted while DRAGGING.
C38_StartsAndStopsAlternate ==
    [][LET ev == SliderEventsIn(Emitted)
       IN  /\ Len(ev) <= 1
           /\ ev = <<"SliderStart">>
                 => /\ Dragging(store) = {}
                    /\ Cardinality(Dragging(store')) = 1
           /\ ev = <<"SliderStop">>
                 => /\ Cardinality(Dragging(store)) = 1
                    /\ Dragging(store') = {}
           /\ ev = <<>> => Dragging(store') = Dragging(store)
           /\ \A id \in Sliders(store) \ DOMAIN store' :
                 store[id].slider.state.tag # "DRAGGING"
           /\ \A id \in Sliders(store') \ DOMAIN store :
                 store'[id].slider.state.tag = "UNTOUCHED"]_vars

\* C38 witness: the slider was grabbed for the first time in the frame that
\* deleted it: that frame's events hold its SliderStart and the SliderStop
\* forced by SliderLifetimeSystem, and maintain has removed the entity.
C38_Witness ==
    /\ pc = "post_frame"
    /\ hist[1].deleted
    /\ Sliders(store) = {}
    /\ SliderEventsIn(game_events) = <<"SliderStart", "SliderStop">>
    /\ hist[1].scored_as.kind = "SliderEnd"
    /\ hist[1].scored_as.state.tag = "UNTOUCHED"

----------------------------------------------------------------------------
(* The viewport transform and the first frames.                            *)

\* HitSystem is about to map entity id to the screen: a circle inside the
\* hit zone while a bound key is active, or a slider in its judging window
HitTestDue(id) ==
    /\ CanRun("hit-system")
    /\ \/ /\ id \in Circles(store)
          /\ is_in_hit_zone(store[id].remaining)
          /\ \E b \in {"Hit1", "Hit2"} : is_key_active(input_state, b)
       \/ /\ id \in Sliders(store)
          /\ slider_in_judging_window(store[id])

\* C39: HitSystem never reads the viewport transform before the renderer
\* has published it.  While GameArea's matrix is unset no circle or slider
\* entity exists (the entities created in the first frame appear at its
\* maintain, after the renderer has run), so whenever a hit test is due the
\* matrix is set, and matrix.unwrap() never panics.
C39_MatrixSetBeforeHitTest ==
    /\ Circles(store) \cup Sliders(store) # {} => game_area.matrix.set
    /\ \A id \in DOMAIN store : HitTestDue(id) => game_area.matrix.set
    /\ pc # "panic: unwrap on None"

\* C39 witness: in the earliest frame with entities, before any time has
\* passed, HitSystem tested the circle under the cursor and requested its
\* marker.
C39_Witness ==
    /\ pc = "dispatch"
    /\ "hit-system" \in done
    /\ time.secs_since_start = 0
    /\ game_area.matrix.set
    /\ hist[1].hit_reqs > 0

----------------------------------------------------------------------------
(* UNTOUCHED is only the state a slider is created in.                     *)

\* C40: no slider returns to UNTOUCHED once it has left it, and no system
\* asks go_to_state for UNTOUCHED, so that none of its unreachable!()
\* branches runs: across every step a slider entity that is DRAGGING or
\* FINISHED is not UNTOUCHED afterwards, and the frame loop never stops in
\* the panic of unreachable!().
C40_NeverBackToUntouched ==
    /\ [](pc # "panic: unreachable")
    /\ [][\A id \in Sliders(store) \cap DOMAIN store' :
             (/\ store'[id].src = store[id].src
              /\ store[id].slider.state.tag # "UNTOUCHED")
                => store'[id].slider.state.tag # "UNTOUCHED"]_vars

\* C40 witness: a slider that was grabbed and released before its end has
\* gone through its life and was deleted with a FINISHED marker.
C40_Witness ==
    /\ hist[1].deleted
    /\ ~hist[1].held_all
    /\ hist[1].scored_as.kind = "SliderEnd"
    /\ hist[1].scored_as.state.tag = "FINISHED"
    /\ hist[1].scored_as.state.pct.num > 0
    /\ hist[1].scored_as.state.pct.num < hist[1].scored_as.state.pct.den

====
